---- MODULE Spec2Model ----
(***************************************************************************)
(* vfx-mcp: the tool layer of the video editing server.                    *)
(*                                                                         *)
(* Every tool is a coroutine: it checks its parameters, builds a command   *)
(* for the external engine (ffmpeg / ffprobe), invokes the engine and      *)
(* turns an engine failure into an error for the caller.  The model keeps  *)
(* one record per tool call, the files the tools themselves create (the    *)
(* concat list file, transforms.trf, output directories) and, per server   *)
(* process, which call currently holds the event loop.                     *)
(*                                                                         *)
(* A call gives up the event loop of its server only at an await           *)
(* (ctx.info / ctx.error, which exist only when a context was passed) and  *)
(* when it ends.  Calls served by different server processes (the default  *)
(* stdio transport starts one server per client) interleave at every       *)
(* step; they share the file system.                                       *)
(***************************************************************************)
EXTENDS Integers, Sequences, FiniteSets, TLC

VARIABLES calls, fs, loop, cwd, reads, proc, work

vars == <<calls, fs, loop, cwd, reads, proc, work>>

----------------------------------------------------------------------------
(* Bounds of the model *)

MaxCalls == 2
MaxServers == 2
MaxInputs == 2
MaxTime == 2
MaxSpeedNum == 36
MaxItems == 2

Calls == 1..MaxCalls
Servers == 1..MaxServers

----------------------------------------------------------------------------
(* Rational numbers <<n, d>> with d > 0: the float parameters of the tools *)

SpeedDen == 4

QLt(p, q) == p[1] * q[2] < q[1] * p[2]
QLe(p, q) == p[1] * q[2] <= q[1] * p[2]
QEq(p, q) == p[1] * q[2] = q[1] * p[2]
QMul(p, q) == <<p[1] * q[1], p[2] * q[2]>>
QHalf(p) == <<p[1], 2 * p[2]>>

Zero == <<0, 1>>
One == <<1, 1>>
Two == <<2, 1>>
Four == <<4, 1>>
Quarter == <<1, 4>>

RECURSIVE QProduct(_)
QProduct(s) == IF s = <<>> THEN One ELSE QMul(Head(s), QProduct(Tail(s)))

SpeedValues == { <<n, SpeedDen>> : n \in -1..MaxSpeedNum }
TimeValues == -1..MaxTime

----------------------------------------------------------------------------
(* Values shared by the tools *)

(* Path strings, character by character *)
Paths == { <<"a", ".", "m", "p", "4">>, <<"b", "'", "s", ".", "m", "p", "4">> }
Dirs == {"out1", "out2"}
OutNames == {"x.mp4", "y.mp4"}
OutputPaths == { <<d, f>> : d \in Dirs, f \in OutNames }
FirstOutput == <<"out1", "x.mp4">>
Cwd == "."

RECURSIVE SeqsUpTo(_, _)
SeqsUpTo(S, n) ==
  IF n = 0 THEN {<<>>}
  ELSE LET shorter == SeqsUpTo(S, n - 1)
       IN shorter \cup { Append(q, x) : q \in { r \in shorter : Len(r) = n - 1 }, x \in S }

InputLists == SeqsUpTo(Paths, MaxInputs)

(* os.path.abspath(path): the working directory joined with a relative path *)
getcwd == <<"/", "w">>
abspath(path) == getcwd \o <<"/">> \o path

(* The files the tools themselves write, read back or delete *)
ListFile(output_path) == <<output_path[1], "concat_list.txt">>
TransformsFile == <<Cwd, "transforms.trf">>
FilePaths == { <<d, "concat_list.txt">> : d \in Dirs } \cup {TransformsFile}
             \cup { <<d, "">> : d \in {"frames", "batch_out"} }

Absent == [present |-> FALSE, writer |-> 0, lines |-> <<>>]
File(writer, lines) == [present |-> TRUE, writer |-> writer, lines |-> lines]

----------------------------------------------------------------------------
(* The steps of a tool, in program order *)

Always == {"*"}

Step(op, name, msg, when, to) ==
  [op |-> op, name |-> name, msg |-> msg, when |-> when, to |-> to]

(* if <condition on the parameters>: raise ValueError(msg) *)
Check(name, msg) == Step("check", name, msg, Always, 0)
(* if ctx: await ctx.info(...) *)
InfoStep == Step("info", "", "", Always, 0)
InfoWhen(w) == Step("info", "", "", w, 0)
(* ffmpeg.probe(path) *)
ProbeStep == Step("probe", "", "", Always, 0)
ProbeWhen(w) == Step("probe", "", "", w, 0)
(* ffmpeg.run(stream, overwrite_output=True): stderr is not captured *)
RunStep == Step("run", "", "", Always, 0)
(* ffmpeg.run(..., capture_stderr=True) *)
RunCapturedStep == Step("run_captured", "", "", Always, 0)
RunCapturedWhen(w) == Step("run_captured", "", "", w, 0)
(* an engine run inside an inner try whose except Exception goes on *)
RunSwallowedWhen(w) == Step("run_swallowed", "", "", w, 0)
(* one item of a batch: run, and on any exception record it and go on *)
RunItemStep == Step("run_item", "", "", Always, 0)
(* for ... in ...: back to step `to` while items remain *)
NextItemStep(to) == Step("next_item", "", "", Always, to)
(* Path(dir).mkdir(parents=True, exist_ok=True) *)
MkdirStep(dir) == Step("mkdir", dir, "", Always, 0)
WriteListStep == Step("write_list", "", "", Always, 0)
UnlinkListStep == Step("unlink_list", "", "", Always, 0)
RemoveTransformsStep == Step("remove_transforms", "", "", Always, 0)
ReturnStep == Step("return", "", "", Always, 0)
BuildStep == Step("build", "", "", Always, 0)
BuildWhen(w) == Step("build", "", "", w, 0)
(* ffmpeg.run(...) that writes numbered frame files *)
RunFramesStep == Step("run_frames", "", "", Always, 0)
(* len(list(Path(output_dir).glob(...))) *)
GlobStep == Step("glob", "", "", Always, 0)

(* A tool: whether it takes a ctx parameter, how its except clause reports *)
(* an exception, the branches its parameters select, and its steps.        *)
Tool(ctxParam, handler, branches, steps) ==
  [ctxParam |-> ctxParam, handler |-> handler, branches |-> branches, steps |-> steps]

NoBranch == {"-"}

----------------------------------------------------------------------------
(* The tools of main.py (main_original.py holds the same functions) *)

trim_video ==
  Tool(TRUE, "ffmpeg_stderr", NoBranch, <<InfoStep, RunStep, ReturnStep>>)

get_video_info ==
  Tool(FALSE, "probe_str", NoBranch, <<ProbeStep, BuildStep, ReturnStep>>)

resize_video ==
  Tool(TRUE, "ffmpeg_stderr", NoBranch,
       <<Check("sizing", "Must specify either width, height, or scale"),
         InfoStep, RunStep, ReturnStep>>)

concatenate_videos ==
  Tool(TRUE, "exception_str", NoBranch,
       <<Check("min_inputs", "Need at least 2 videos to concatenate"),
         InfoStep, WriteListStep, RunStep, UnlinkListStep, ReturnStep>>)

extract_audio ==
  Tool(TRUE, "ffmpeg_stderr", NoBranch, <<InfoStep, RunStep, ReturnStep>>)

add_audio ==
  Tool(TRUE, "ffmpeg_stderr", NoBranch, <<InfoStep, RunStep, ReturnStep>>)

apply_filter ==
  Tool(TRUE, "ffmpeg_stderr", NoBranch, <<InfoStep, RunStep, ReturnStep>>)

change_speed ==
  Tool(TRUE, "ffmpeg_stderr", NoBranch,
       <<Check("speed_positive", "Speed must be greater than 0"),
         InfoStep, RunStep, ReturnStep>>)

generate_thumbnail ==
  Tool(TRUE, "ffmpeg_stderr", {"timestamp_none", "timestamp_given"},
       <<InfoStep, ProbeWhen({"timestamp_none"}), RunStep, ReturnStep>>)

convert_format ==
  Tool(TRUE, "ffmpeg_stderr", NoBranch, <<InfoStep, RunStep, ReturnStep>>)

create_video_slideshow ==
  Tool(TRUE, "ffmpeg_stderr", NoBranch,
       <<Check("image_count", "Need at least 1 image to create slideshow"),
         InfoStep,
         Check("resolution_parse", "not enough values to unpack / invalid literal for int()"),
         RunStep, ReturnStep>>)

extract_frames ==
  Tool(TRUE, "ffmpeg_stderr", NoBranch,
       <<Check("frame_interval", "Frame interval must be 1 or greater"),
         InfoStep, MkdirStep("frames"), RunFramesStep, GlobStep, ReturnStep>>)

add_text_overlay ==
  Tool(TRUE, "ffmpeg_stderr", NoBranch, <<InfoStep, RunStep, ReturnStep>>)

create_video_mosaic ==
  Tool(TRUE, "ffmpeg_stderr", NoBranch,
       <<Check("layout_x", "Layout must be in format 'WxH' (e.g., '2x2', '3x1')"),
         Check("layout_int", "Invalid layout format"),
         Check("input_count", "Layout requires more videos than provided"),
         InfoStep, RunStep, ReturnStep>>)

detect_scene_changes ==
  Tool(TRUE, "ffmpeg_stderr", NoBranch,
       <<Check("threshold", "Threshold must be between 0.0 and 1.0"),
         InfoStep, ProbeStep, RunCapturedStep, BuildStep, InfoStep, ReturnStep>>)

create_picture_in_picture ==
  Tool(TRUE, "ffmpeg_stderr", NoBranch,
       <<Check("scale", "Scale must be between 0.1 and 1.0"),
         Check("opacity", "Opacity must be between 0.0 and 1.0"),
         InfoStep, ProbeStep,
         Check("position_parts", "too many values to unpack (expected 2)"),
         RunStep, ReturnStep>>)

extract_audio_spectrum ==
  Tool(TRUE, "ffmpeg_stderr", NoBranch,
       <<Check("style", "Style must be one of: spectrum, waveform, showcqt, showfreqs"),
         Check("size_x", "Size must be in format 'WIDTHxHEIGHT'"),
         InfoStep,
         Check("size_parse", "too many values to unpack / invalid literal for int()"),
         RunStep, ReturnStep>>)

apply_color_grading ==
  Tool(TRUE, "ffmpeg_stderr", NoBranch,
       <<Check("brightness", "Brightness must be between -1.0 and 1.0"),
         Check("contrast", "Contrast must be between 0.0 and 3.0"),
         Check("saturation", "Saturation must be between 0.0 and 3.0"),
         Check("gamma", "Gamma must be between 0.1 and 3.0"),
         Check("temperature", "Temperature must be between -2000 and 2000"),
         Check("tint", "Tint must be between -100 and 100"),
         InfoStep, RunStep, ReturnStep>>)

create_time_lapse ==
  Tool(TRUE, "ffmpeg_stderr", {"plain", "stabilize"},
       <<Check("speed_factor", "Speed factor must be between 2.0 and 100.0"),
         InfoStep, InfoWhen({"stabilize"}), RunStep, ReturnStep>>)

merge_audio_tracks ==
  Tool(TRUE, "ffmpeg_stderr", NoBranch,
       <<Check("track_count", "Need at least 2 audio tracks to merge"),
         Check("mix_mode", "Mix mode must be one of: mix, sequence, overlay"),
         Check("volume_count", "Number of volumes must match number of audio paths"),
         Check("volume_range", "Volume values must be between 0.0 and 2.0"),
         Check("delay_count", "Number of delays must match number of audio paths"),
         Check("delay_range", "Delay values must be non-negative"),
         InfoStep, RunStep, ReturnStep>>)

create_green_screen_effect ==
  Tool(TRUE, "ffmpeg_stderr", {"transparent", "background"},
       <<Check("similarity", "Similarity must be between 0.0 and 1.0"),
         Check("blend", "Blend must be between 0.0 and 1.0"),
         Check("spill_reduction", "Spill reduction must be between 0.0 and 1.0"),
         InfoStep, ProbeWhen({"background"}), RunStep, ReturnStep>>)

apply_motion_blur ==
  Tool(TRUE, "ffmpeg_stderr", NoBranch,
       <<Check("blur_strength", "Blur strength must be between 0.1 and 5.0"),
         Check("angle", "Angle must be between 0.0 and 360.0"),
         Check("shutter_speed", "Shutter speed must be between 0.1 and 1.0"),
         InfoStep, RunStep, ReturnStep>>)

create_video_transitions ==
  Tool(TRUE, "ffmpeg_stderr", NoBranch,
       <<Check("clip_count", "Need at least 2 video clips to create transitions"),
         Check("transition_duration", "Transition duration must be between 0.1 and 5.0 seconds"),
         Check("transition_type", "Transition type must be one of the valid transitions"),
         InfoStep, RunStep, ReturnStep>>)

extract_video_statistics ==
  Tool(TRUE, "ffmpeg_stderr", {"basic", "comprehensive", "quality", "motion"},
       <<Check("analysis_type", "Analysis type must be one of: basic, comprehensive, quality, motion"),
         InfoStep, ProbeStep,
         InfoWhen({"comprehensive", "quality"}),
         RunCapturedWhen({"comprehensive", "quality"}),
         BuildWhen({"comprehensive", "quality"}),
         InfoWhen({"comprehensive", "motion"}),
         RunSwallowedWhen({"comprehensive", "motion"}),
         ReturnStep>>)

create_loop_video ==
  Tool(TRUE, "ffmpeg_stderr", NoBranch,
       <<Check("loop_duration", "Loop duration must be between 1.0 and 120.0 seconds"),
         Check("crossfade_duration", "Crossfade duration must be between 0.1 and 5.0 seconds"),
         Check("crossfade_half", "Crossfade duration must be less than half the loop duration"),
         InfoStep, ProbeStep, RunStep, ReturnStep>>)

----------------------------------------------------------------------------
(* The tools only main_original.py holds *)

create_particle_system ==
  Tool(TRUE, "ffmpeg_stderr", NoBranch,
       <<Check("particle_type", "Particle type must be one of the valid types"),
         Check("density", "Density must be between 10 and 500"),
         Check("speed", "Speed must be between 0.1 and 5.0"),
         Check("opacity", "Opacity must be between 0.1 and 1.0"),
         Check("size_range", "Size range must be in format 'min:max' (e.g., '2:8')"),
         InfoStep, RunStep, ReturnStep>>)

apply_3d_transforms ==
  Tool(TRUE, "ffmpeg_stderr", NoBranch,
       <<Check("transform_type", "Transform type must be one of the valid transforms"),
         Check("rotation_x", "Rotation X must be between -180 and 180 degrees"),
         Check("rotation_y", "Rotation Y must be between -180 and 180 degrees"),
         Check("rotation_z", "Rotation Z must be between -180 and 180 degrees"),
         Check("depth", "Depth must be between -1.0 and 1.0"),
         Check("perspective_strength", "Perspective strength must be between 0.0 and 2.0"),
         InfoStep, RunStep, ReturnStep>>)

create_split_screen ==
  Tool(TRUE, "ffmpeg_stderr", {"vertical", "horizontal", "quad"},
       <<Check("min_videos", "Need at least 2 videos for split-screen"),
         Check("max_videos", "Maximum 4 videos supported for split-screen"),
         Check("layout", "Layout must be one of the valid layouts"),
         Check("border_width", "Border width must be between 0 and 20 pixels"),
         InfoStep,
         Check("layout_count", "This layout requires exactly N videos"),
         BuildStep, RunStep, ReturnStep>>)

apply_video_stabilization ==
  Tool(TRUE, "ffmpeg_stderr", NoBranch,
       <<Check("strength", "Strength must be between 1 and 100"),
         Check("smoothing", "Smoothing must be between 1 and 100"),
         Check("zoom", "Zoom must be between 0.0 and 0.2"),
         InfoStep, InfoStep, InfoStep, RunStep, RemoveTransformsStep, ReturnStep>>)

create_zoom_pan_effect ==
  Tool(TRUE, "ffmpeg_stderr", {"duration_none", "duration_given"},
       <<Check("start_zoom", "Start zoom must be between 0.5 and 5.0"),
         Check("end_zoom", "End zoom must be between 0.5 and 5.0"),
         Check("start_x", "Start X must be between 0.0 and 1.0"),
         Check("start_y", "Start Y must be between 0.0 and 1.0"),
         Check("end_x", "End X must be between 0.0 and 1.0"),
         Check("end_y", "End Y must be between 0.0 and 1.0"),
         Check("easing", "Easing must be one of the valid easings"),
         InfoStep, ProbeWhen({"duration_none"}), RunStep, ReturnStep>>)

batch_process_videos ==
  Tool(TRUE, "none", NoBranch,
       <<Check("operation", "Operation must be one of the valid operations"),
         Check("input_paths", "Must provide at least one input video"),
         MkdirStep("batch_out"), InfoStep,
         InfoStep, RunItemStep, NextItemStep(5),
         InfoStep, ReturnStep>>)

create_animated_text ==
  Tool(TRUE, "ffmpeg_stderr", NoBranch,
       <<Check("animation_type", "Animation type must be one of the valid animations"),
         Check("duration", "Duration must be between 1.0 and 30.0 seconds"),
         Check("font_size", "Font size must be between 12 and 200 pixels"),
         Check("resolution", "Resolution must be in format 'WIDTHxHEIGHT'"),
         InfoStep, RunStep, ReturnStep>>)

apply_lens_effects ==
  Tool(TRUE, "ffmpeg_stderr", {"lens_flare", "other_effect"},
       <<Check("effect_type", "Effect type must be one of the valid effects"),
         Check("strength", "Strength must be between 0.1 and 2.0"),
         Check("center_x", "Center X must be between 0.0 and 1.0"),
         Check("center_y", "Center Y must be between 0.0 and 1.0"),
         InfoStep, ProbeWhen({"lens_flare"}), RunStep, ReturnStep>>)

create_video_collage ==
  Tool(TRUE, "ffmpeg_stderr", NoBranch,
       <<Check("min_videos", "Need at least 2 videos for collage"),
         Check("max_videos", "Maximum 9 videos supported for collage"),
         Check("layout_pattern", "Layout pattern must be one of the valid patterns"),
         Check("transition_interval", "Transition interval must be between 1.0 and 10.0 seconds"),
         Check("border_width", "Border width must be between 0 and 10 pixels"),
         InfoStep, RunStep, ReturnStep>>)

extract_dominant_colors ==
  Tool(TRUE, "ffmpeg_stderr", NoBranch,
       <<Check("num_colors", "Number of colors must be between 3 and 20"),
         Check("analysis_frames", "Analysis frames must be between 5 and 50"),
         InfoStep, ProbeStep,
         InfoStep, RunCapturedStep, NextItemStep(6),
         ReturnStep>>)

----------------------------------------------------------------------------
(* The tools of the vfx_mcp package (src/vfx_mcp/tools) *)

pkg_apply_filter ==
  Tool(TRUE, "pkg_stderr", NoBranch,
       <<Check("filter_name", "validate_filter_name"),
         Check("strength", "validate_range: Filter strength"),
         InfoStep,
         Check("scale_params", "too many values to unpack / invalid literal for int()"),
         RunStep, ReturnStep>>)

pkg_change_speed ==
  Tool(TRUE, "pkg_stderr", NoBranch,
       <<Check("speed_range", "validate_range: Speed factor"),
         InfoStep, RunStep, ReturnStep>>)

pkg_generate_thumbnail ==
  Tool(TRUE, "pkg_stderr", NoBranch,
       <<Check("width", "validate_range: Width"),
         Check("height", "validate_range: Height"),
         InfoStep, RunStep, ReturnStep>>)

pkg_extract_audio ==
  Tool(TRUE, "pkg_stderr", NoBranch,
       <<Check("format", "Format must be one of: mp3, wav, aac, flac, ogg"),
         InfoStep, RunStep, ReturnStep>>)

pkg_add_audio ==
  Tool(TRUE, "pkg_stderr", NoBranch,
       <<Check("audio_volume", "validate_range: Audio volume"),
         InfoStep, RunStep, ReturnStep>>)

pkg_convert_format ==
  Tool(TRUE, "pkg_stderr", NoBranch, <<InfoStep, RunStep, ReturnStep>>)

----------------------------------------------------------------------------
(* The resource videos://{filename}/metadata (main.py): everything in one
   try block whose except Exception returns a JSON document *)

get_video_metadata ==
  Tool(FALSE, "resource_json", NoBranch, <<ProbeStep, BuildStep, ReturnStep>>)

----------------------------------------------------------------------------
(* The registered tools, by name *)

Programs ==
  [trim_video |-> trim_video,
   get_video_info |-> get_video_info,
   get_video_metadata |-> get_video_metadata,
   resize_video |-> resize_video,
   concatenate_videos |-> concatenate_videos,
   extract_audio |-> extract_audio,
   add_audio |-> add_audio,
   apply_filter |-> apply_filter,
   change_speed |-> change_speed,
   generate_thumbnail |-> generate_thumbnail,
   convert_format |-> convert_format,
   create_video_slideshow |-> create_video_slideshow,
   extract_frames |-> extract_frames,
   add_text_overlay |-> add_text_overlay,
   create_video_mosaic |-> create_video_mosaic,
   detect_scene_changes |-> detect_scene_changes,
   create_picture_in_picture |-> create_picture_in_picture,
   extract_audio_spectrum |-> extract_audio_spectrum,
   apply_color_grading |-> apply_color_grading,
   create_time_lapse |-> create_time_lapse,
   merge_audio_tracks |-> merge_audio_tracks,
   create_green_screen_effect |-> create_green_screen_effect,
   apply_motion_blur |-> apply_motion_blur,
   create_video_transitions |-> create_video_transitions,
   extract_video_statistics |-> extract_video_statistics,
   create_loop_video |-> create_loop_video,
   create_particle_system |-> create_particle_system,
   apply_3d_transforms |-> apply_3d_transforms,
   create_split_screen |-> create_split_screen,
   apply_video_stabilization |-> apply_video_stabilization,
   create_zoom_pan_effect |-> create_zoom_pan_effect,
   batch_process_videos |-> batch_process_videos,
   create_animated_text |-> create_animated_text,
   apply_lens_effects |-> apply_lens_effects,
   create_video_collage |-> create_video_collage,
   extract_dominant_colors |-> extract_dominant_colors,
   pkg_apply_filter |-> pkg_apply_filter,
   pkg_change_speed |-> pkg_change_speed,
   pkg_generate_thumbnail |-> pkg_generate_thumbnail,
   pkg_extract_audio |-> pkg_extract_audio,
   pkg_add_audio |-> pkg_add_audio,
   pkg_convert_format |-> pkg_convert_format]

ToolNames == DOMAIN Programs

(* The tools whose calls touch a file of a fixed name *)
SharingTools == {"concatenate_videos", "apply_video_stabilization"}

(* The tools whose calls write into a directory of the caller's choice *)
FrameTools == {"extract_frames"}

SharingGroups == {SharingTools, FrameTools}

StepsOf(t) == Programs[t].steps

CheckNames(t) ==
  { StepsOf(t)[i].name : i \in { j \in DOMAIN StepsOf(t) : StepsOf(t)[j].op = "check" } }

HasLoop(t) == \E i \in DOMAIN StepsOf(t) : StepsOf(t)[i].op = "next_item"

Applies(step, a) == step.when = Always \/ a.branch \in step.when

(* The first step at or after position i that the call's arguments select *)
RECURSIVE NextPc(_, _, _)
NextPc(t, a, i) ==
  IF Applies(StepsOf(t)[i], a) THEN i ELSE NextPc(t, a, i + 1)

----------------------------------------------------------------------------
(* Arguments of a call *)

(* What ffprobe reports on the file a call names: whether the file exists,
   whether it has a video and an audio stream, whether the format section
   carries bit_rate, the video stream's r_frame_rate, and whether the streams
   carry bit_rate *)
Media(exists, video, audio, format_bit_rate, r_frame_rate, stream_bit_rate) ==
  [exists |-> exists, video |-> video, audio |-> audio,
   format_bit_rate |-> format_bit_rate, r_frame_rate |-> r_frame_rate,
   stream_bit_rate |-> stream_bit_rate]

AnyMedia == Media(TRUE, TRUE, TRUE, TRUE, <<30, 1>>, TRUE)
NoFile == Media(FALSE, FALSE, FALSE, FALSE, <<0, 1>>, FALSE)

FrameRates == { <<30, 1>>, <<30000, 1001>>, <<0, 0>> }

MediaFiles ==
  {NoFile} \cup
  { Media(TRUE, v, a, b, f, sb) :
      v \in BOOLEAN, a \in BOOLEAN, b \in BOOLEAN, f \in FrameRates,
      sb \in BOOLEAN }

NoArgs ==
  [defect |-> "none", branch |-> "-", items |-> 1, start_time |-> 0,
   duration |-> <<>>, input_paths |-> <<>>, output_path |-> <<Cwd, "out.mp4">>,
   speed |-> One, width |-> <<>>, height |-> <<>>, scale |-> <<>>,
   layout |-> <<>>, similarity |-> Zero, blend |-> Zero, spill_reduction |-> Zero,
   media |-> AnyMedia, duration_per_image |-> 3000, transition_duration |-> 500,
   border_width |-> 2]

(* An optional parameter: <<>> is None, <<x>> is the value x *)
Opt(S) == {<<>>} \cup { <<x>> : x \in S }

(* Python truth of an optional number: None and 0 are falsy *)
Truthy(o) == o # <<>> /\ o[1] # 0
TruthyQ(o) == o # <<>> /\ o[1][1] # 0

GenericArgs(t) ==
  { [NoArgs EXCEPT !.defect = d, !.branch = b, !.items = n] :
      d \in {"none"} \cup CheckNames(t),
      b \in Programs[t].branches,
      n \in IF HasLoop(t) THEN 1..MaxItems ELSE {1} }

TrimArgs ==
  { [NoArgs EXCEPT !.start_time = s, !.duration = d] :
      s \in TimeValues, d \in {<<>>} \cup { <<x>> : x \in TimeValues } }

ConcatArgs ==
  { [NoArgs EXCEPT !.input_paths = ps, !.output_path = o] :
      ps \in InputLists, o \in OutputPaths }

SpeedArgs == { [NoArgs EXCEPT !.speed = v] : v \in SpeedValues }

MaxDim == 2
Dimensions == 0..MaxDim
ScaleValues == {Zero, <<1, 2>>, <<15, 1>>}

ResizeArgs ==
  { [NoArgs EXCEPT !.width = w, !.height = h, !.scale = k] :
      w \in Opt(Dimensions), h \in Opt(Dimensions), k \in Opt(ScaleValues) }

(* Text is a sequence of characters *)
DigitChars == <<"0", "1", "2", "3", "4", "5", "6", "7", "8", "9">>
IsDigit(ch) == \E i \in DOMAIN DigitChars : DigitChars[i] = ch
DigitValue(ch) == (CHOOSE i \in DOMAIN DigitChars : DigitChars[i] = ch) - 1

(* str.split(sep): the pieces between the separators *)
RECURSIVE Split(_, _)
Split(text, sep) ==
  IF \A i \in DOMAIN text : text[i] # sep THEN <<text>>
  ELSE LET k == CHOOSE i \in DOMAIN text :
                  text[i] = sep /\ \A j \in 1..(i - 1) : text[j] # sep
       IN <<SubSeq(text, 1, k - 1)>> \o Split(SubSeq(text, k + 1, Len(text)), sep)

(* int(text): defined for an optional sign followed by digits *)
Unsigned(text) == text # <<>> /\ \A i \in DOMAIN text : IsDigit(text[i])
IsInt(text) ==
  \/ Unsigned(text)
  \/ (text # <<>> /\ Head(text) \in {"-", "+"} /\ Unsigned(Tail(text)))

RECURSIVE UnsignedValue(_)
UnsignedValue(text) ==
  IF text = <<>> THEN 0
  ELSE 10 * UnsignedValue(SubSeq(text, 1, Len(text) - 1)) + DigitValue(text[Len(text)])

int(text) ==
  IF Head(text) = "-" THEN 0 - UnsignedValue(Tail(text))
  ELSE IF Head(text) = "+" THEN UnsignedValue(Tail(text))
  ELSE UnsignedValue(text)

Layouts ==
  { <<"2", "x", "2">>, <<"1", "x", "2">>, <<"2", "x", "1">>, <<"1", "x", "1">>,
    <<"3", "x", "1">>, <<"2", "2">>, <<"a", "x", "2">>, <<"x">>,
    <<"1", "x", "2", "x", "1">>, <<"-", "1", "x", "2">>, <<"0", "x", "2">> }

MaxMosaicInputs == 4

MosaicArgs ==
  { [NoArgs EXCEPT !.layout = l, !.input_paths = [i \in 1..n |-> <<"a", ".", "m", "p", "4">>]] :
      l \in Layouts, n \in 0..MaxMosaicInputs }

UnitValues == { <<-1, 2>>, Zero, <<1, 2>>, One, <<3, 2>> }

GreenScreenArgs ==
  { [NoArgs EXCEPT !.branch = b, !.similarity = v, !.blend = w,
                   !.spill_reduction = z] :
      b \in {"transparent", "background"},
      v \in UnitValues, w \in UnitValues, z \in UnitValues }

MediaArgs == { [NoArgs EXCEPT !.media = m] : m \in MediaFiles }

(* create_video_slideshow: the images and the two durations, in
   milliseconds *)
MaxImages == 3

SlideshowArgs ==
  { [NoArgs EXCEPT !.defect = x, !.input_paths = [i \in 1..n |-> <<"a", ".", "p", "n", "g">>],
                   !.duration_per_image = d, !.transition_duration = t] :
      x \in {"none", "resolution_parse"}, n \in 0..MaxImages,
      d \in {2000, 3000}, t \in {500, 1000} }

(* create_time_lapse: speed_factor from 1.0 to 5.0 in quarters, and 101.0 *)
TimeLapseSpeeds == { <<n, 4>> : n \in 4..20 } \cup { <<101, 1>> }

TimeLapseArgs ==
  { [NoArgs EXCEPT !.branch = b, !.speed = v] :
      b \in {"plain", "stabilize"}, v \in TimeLapseSpeeds }

(* create_split_screen: the layout and the border width *)
BorderWidths == {-1, 0, 1, 2, 20, 21}

SplitScreenArgs ==
  { [NoArgs EXCEPT !.defect = x, !.branch = l, !.border_width = b] :
      x \in {"none", "min_videos", "max_videos", "layout", "layout_count"},
      l \in {"vertical", "horizontal", "quad"}, b \in BorderWidths }

ArgsOf(t) ==
  CASE t = "trim_video" -> TrimArgs
    [] t = "create_split_screen" -> SplitScreenArgs
    [] t = "create_time_lapse" -> TimeLapseArgs
    [] t = "create_video_slideshow" -> SlideshowArgs
    [] t \in {"get_video_info", "get_video_metadata"} -> MediaArgs
    [] t = "create_green_screen_effect" -> GreenScreenArgs
    [] t = "create_video_mosaic" -> MosaicArgs
    [] t = "resize_video" -> ResizeArgs
    [] t = "concatenate_videos" -> ConcatArgs
    [] t \in {"change_speed", "pkg_change_speed"} -> SpeedArgs
    [] OTHER -> GenericArgs(t)

(* validate_range(value, min_val, max_val, name): TRUE when it raises *)
validate_range(value, min_val, max_val) ==
  QLt(value, min_val) \/ QLt(max_val, value)

(* A weaker minimum, to compare against *)
TooFewVideosLax(input_paths) == Len(input_paths) < 1

(* concatenate_videos: if len(input_paths) < 2 *)
TooFewVideos(input_paths) == Len(input_paths) < 2

(* A check that lets speed 0 through, to compare against *)
SpeedNegative(speed) == QLt(speed, Zero)

(* change_speed (main.py): if speed <= 0 *)
SpeedNotPositive(speed) == QLe(speed, Zero)

(* A sizing check that also refuses width and height together, to compare against *)
NoSizingOrBoth(width, height, scale) ==
  \/ ~(Truthy(width) \/ Truthy(height) \/ TruthyQ(scale))
  \/ (Truthy(width) /\ Truthy(height))

(* resize_video: if not any([width, height, scale]) *)
NoSizing(width, height, scale) ==
  ~(Truthy(width) \/ Truthy(height) \/ TruthyQ(scale))

(* create_video_mosaic: if "x" not in layout *)
NoX(layout) == \A i \in DOMAIN layout : layout[i] # "x"

(* create_video_mosaic: cols, rows = map(int, layout.split("x")) raises *)
BadLayout(layout) ==
  LET parts == Split(layout, "x")
  IN Len(parts) # 2 \/ ~IsInt(parts[1]) \/ ~IsInt(parts[2])

cols(layout) == int(Split(layout, "x")[1])
rows(layout) == int(Split(layout, "x")[2])
required_videos(layout) == cols(layout) * rows(layout)

(* A count check that is content with one video less, to compare against *)
NotEnoughVideosLax(input_paths, layout) ==
  Len(input_paths) < required_videos(layout) - 1

(* create_video_mosaic: if len(input_paths) < required_videos *)
NotEnoughVideos(input_paths, layout) ==
  Len(input_paths) < required_videos(layout)

(* A range check without the upper limit, to compare against *)
BelowUnit(value) == QLt(value, Zero)

(* create_green_screen_effect: if not 0.0 <= value <= 1.0 *)
OutsideUnit(value) == ~(QLe(Zero, value) /\ QLe(value, One))

(* Does the named check of the tool raise for these arguments *)
Fails(name, a) ==
  CASE name = "min_inputs" -> TooFewVideos(a.input_paths)
    [] name = "similarity" -> OutsideUnit(a.similarity)
    [] name = "blend" -> OutsideUnit(a.blend)
    [] name = "spill_reduction" -> OutsideUnit(a.spill_reduction)
    [] name = "image_count" -> Len(a.input_paths) < 1
    [] name = "border_width" -> ~(0 <= a.border_width /\ a.border_width <= 20)
    [] name = "speed_factor" -> QLt(a.speed, Two) \/ QLt(<<100, 1>>, a.speed)
    [] name = "layout_x" -> NoX(a.layout)
    [] name = "layout_int" -> BadLayout(a.layout)
    [] name = "input_count" -> NotEnoughVideos(a.input_paths, a.layout)
    [] name = "sizing" -> NoSizing(a.width, a.height, a.scale)
    [] name = "speed_positive" -> SpeedNotPositive(a.speed)
    [] name = "speed_range" -> validate_range(a.speed, Quarter, Four)
    [] OTHER -> a.defect = name

----------------------------------------------------------------------------
(* What the tools hand to the engine *)

(* A chain that stops after the 2.0 stages, to compare against *)
RECURSIVE HalvingStagesOnly(_)
HalvingStagesOnly(remaining_speed) ==
  IF QLt(Two, remaining_speed)
  THEN <<Two>> \o HalvingStagesOnly(QHalf(remaining_speed))
  ELSE <<>>

(* change_speed (main.py): the atempo stages of the audio chain *)
RECURSIVE HalvingStages(_)
HalvingStages(remaining_speed) ==
  IF QLt(Two, remaining_speed)
  THEN <<Two>> \o HalvingStages(QHalf(remaining_speed))
  ELSE IF QLt(One, remaining_speed) THEN <<remaining_speed>> ELSE <<>>

AtempoChain(speed) ==
  IF QLe(speed, Two) THEN <<speed>> ELSE HalvingStages(speed)

(* change_speed (vfx_mcp package): one atempo stage with the speed itself *)
PkgAtempoChain(speed) == <<speed>>

NoCmd ==
  [atempo |-> <<>>, ss |-> <<>>, t |-> <<>>, c |-> "", list |-> <<>>,
   scale |-> <<>>, chromakey |-> <<>>, despill |-> <<>>,
   cells |-> <<>>, xstack |-> <<>>, xfade |-> <<>>,
   setpts |-> <<>>, select |-> <<>>, stack |-> <<>>]

(* create_green_screen_effect: chromakey with similarity and blend as given;
   despill with mix=spill_reduction when spill_reduction > 0 *)
GreenScreenCmd(a) ==
  [NoCmd EXCEPT
     !.chromakey = <<a.similarity, a.blend>>,
     !.despill = IF QLt(Zero, a.spill_reduction) THEN <<a.spill_reduction>> ELSE <<>>]

(* An argument of the scale filter: a number of pixels (-1 is the engine's
   keep-the-aspect-ratio value), or an expression "iw*k" / "ih*k".  The
   factor is written with Python's float formatting, which the engine reads
   back to the same number. *)
Px(n) == [of |-> "px", px |-> n, factor |-> One]
Times(dim, k) == [of |-> dim, px |-> 0, factor |-> k]

(* A scale operation with the two sides exchanged in the one-side cases, to
   compare against *)
ScaleOpSwapped(width, height, scale) ==
  IF TruthyQ(scale) THEN <<Times("iw", scale[1]), Times("ih", scale[1])>>
  ELSE IF Truthy(width) /\ Truthy(height) THEN <<Px(width[1]), Px(height[1])>>
  ELSE IF Truthy(width) THEN <<Px(-1), Px(width[1])>>
  ELSE <<Px(height[1]), Px(-1)>>

(* resize_video: the arguments of the scale filter *)
ScaleOp(width, height, scale) ==
  IF TruthyQ(scale) THEN <<Times("iw", scale[1]), Times("ih", scale[1])>>
  ELSE IF Truthy(width) /\ Truthy(height) THEN <<Px(width[1]), Px(height[1])>>
  ELSE IF Truthy(width) THEN <<Px(width[1]), Px(-1)>>
  ELSE <<Px(-1), Px(height[1])>>

(* trim_video: ss always, t only when duration is truthy, c="copy" either way *)
TrimCmd(a) ==
  [NoCmd EXCEPT !.ss = <<a.start_time>>,
                !.c = "copy",
                !.t = IF a.duration # <<>> /\ a.duration[1] # 0
                      THEN a.duration ELSE <<>>]

(* a // b *)
floordiv(a, b) == IF b > 0 THEN a \div b ELSE (0 - a) \div (0 - b)

(* str(n) of an integer that is not negative *)
RECURSIVE str(_)
str(n) == IF n < 10 THEN <<DigitChars[n + 1]>>
          ELSE str(n \div 10) \o <<DigitChars[(n % 10) + 1]>>

(* sep.join(texts) *)
RECURSIVE join(_, _)
join(sep, texts) ==
  IF texts = <<>> THEN <<>>
  ELSE IF Len(texts) = 1 THEN texts[1]
  ELSE texts[1] \o sep \o join(sep, Tail(texts))

(* len(sequence[:stop]) *)
SliceLen(length, stop) ==
  IF stop >= 0 THEN (IF stop < length THEN stop ELSE length)
  ELSE (IF length + stop > 0 THEN length + stop ELSE 0)

(* create_video_mosaic: the layout string of the xstack filter: per row the
   f"{col}_{row}" of its columns joined by "_", the rows joined by "|" *)
layout_str(ncols, nrows, ninputs) ==
  join(<<"|">>,
       [row \in 1..nrows |->
          join(<<"_">>,
               SelectSeq([col \in 1..ncols |->
                            IF (row - 1) * ncols + (col - 1) < ninputs
                            THEN str(col - 1) \o <<"_">> \o str(row - 1) ELSE <<>>],
                         LAMBDA cell : cell # <<>>))])

(* create_video_mosaic: every input of input_paths[:required_videos] scaled to
   1920 // cols by 1080 // rows; xstack unless the layout is 1x1 *)
MosaicCmd(a) ==
  LET ncols == cols(a.layout)
      nrows == rows(a.layout)
      ninputs == SliceLen(Len(a.input_paths), required_videos(a.layout))
  IN [NoCmd EXCEPT
        !.cells = [i \in 1..ninputs |->
                     [cell_width |-> floordiv(1920, ncols),
                      cell_height |-> floordiv(1080, nrows)]],
        !.xstack = IF ncols = 1 /\ nrows = 1 THEN <<>>
                   ELSE <<[inputs |-> required_videos(a.layout),
                           layout |-> layout_str(ncols, nrows, ninputs)]>>]

(* create_video_slideshow: for i in range(1, len(inputs)): one xfade of the
   stream so far with the next image *)
SlideshowCmd(a) ==
  [NoCmd EXCEPT
     !.xfade = [i \in 1..(Len(a.input_paths) - 1) |->
                  [duration |-> a.transition_duration,
                   offset |-> a.duration_per_image - a.transition_duration]]]

(* create_split_screen (main_original.py): the sizes of the pieces it stacks *)
output_width == 1920
output_height == 1080

Piece(width, height) == [width |-> width, height |-> height]

(* hstack: side by side; the engine wants pieces of one height *)
hstack(pieces) ==
  Piece(IF Len(pieces) = 3 THEN pieces[1].width + pieces[2].width + pieces[3].width
        ELSE pieces[1].width + pieces[2].width,
        pieces[1].height)

(* The rows, each the pieces it puts side by side, and the borders between
   the rows *)
Stack(strips, borders) == [rows |-> strips, borders |-> borders]

vertical(border_width) ==
  LET video == Piece((output_width - border_width) \div 2, output_height)
      border == Piece(border_width, output_height)
  IN Stack(<<IF border_width > 0 THEN <<video, border, video>> ELSE <<video, video>>>>,
           <<>>)

horizontal(border_width) ==
  LET video == Piece(output_width, (output_height - border_width) \div 2)
  IN Stack(<<<<video>>, <<video>>>>,
           IF border_width > 0 THEN <<Piece(output_width, border_width)>> ELSE <<>>)

quad(border_width) ==
  LET video == Piece((output_width - border_width) \div 2,
                     (output_height - border_width) \div 2)
      v_border == Piece(border_width, video.height)
      row == IF border_width > 0 THEN <<video, v_border, video>> ELSE <<video, video>>
  IN Stack(<<row, row>>,
           IF border_width > 0 THEN <<Piece(output_width, border_width)>> ELSE <<>>)

split_stack(layout, border_width) ==
  CASE layout = "vertical" -> vertical(border_width)
    [] layout = "horizontal" -> horizontal(border_width)
    [] layout = "quad" -> quad(border_width)

SplitScreenCmd(a) == [NoCmd EXCEPT !.stack = <<split_stack(a.branch, a.border_width)>>]

(* int(x) of a positive number *)
trunc(q) == q[1] \div q[2]

(* create_time_lapse: the video through setpts PTS/speed_factor up to 2.0 and
   through select not(mod(n, int(speed_factor))) above; the audio through the
   atempo chain up to 4.0 and dropped above *)
TimeLapseCmd(a) ==
  [NoCmd EXCEPT
     !.setpts = IF QLe(a.speed, Two) THEN <<a.speed>> ELSE <<>>,
     !.select = IF QLe(a.speed, Two) THEN <<>> ELSE <<trunc(a.speed)>>,
     !.atempo = IF QLe(a.speed, Four) THEN AtempoChain(a.speed) ELSE <<>>]

BuildCmd(t, a) ==
  CASE t = "trim_video" -> TrimCmd(a)
    [] t = "create_split_screen" -> SplitScreenCmd(a)
    [] t = "create_time_lapse" -> TimeLapseCmd(a)
    [] t = "create_video_slideshow" -> SlideshowCmd(a)
    [] t = "create_video_mosaic" -> MosaicCmd(a)
    [] t = "resize_video" ->
         [NoCmd EXCEPT !.scale = ScaleOp(a.width, a.height, a.scale)]
    [] t = "create_green_screen_effect" -> GreenScreenCmd(a)
    [] t = "change_speed" -> [NoCmd EXCEPT !.atempo = AtempoChain(a.speed)]
    [] t = "pkg_change_speed" -> [NoCmd EXCEPT !.atempo = PkgAtempoChain(a.speed)]
    [] OTHER -> NoCmd

----------------------------------------------------------------------------
(* What get_video_info and the metadata resource return *)

NoInfo == <<>>
Doc(error, info) == [error |-> error, info |-> info]
NoResult == [format |-> "none", doc |-> Doc("", NoInfo)]
Built(raises, format, doc) == [raises |-> raises, result |-> [format |-> format, doc |-> doc]]

(* A stream's sub-object: fields copied from the probe, bit_rate through
   .get("bit_rate", "N/A"), fps through eval(r_frame_rate) *)
VideoInfo(probe) ==
  [codec |-> "codec_name", width |-> "width", height |-> "height",
   fps |-> probe.r_frame_rate,
   bit_rate |-> IF probe.stream_bit_rate THEN "bit_rate" ELSE "N/A"]

AudioInfo(probe) ==
  [codec |-> "codec_name", sample_rate |-> "sample_rate", channels |-> "channels",
   bit_rate |-> IF probe.stream_bit_rate THEN "bit_rate" ELSE "N/A"]

InfoDict(probe, video, audio) ==
  [filename |-> "os.path.basename", format |-> "format_name",
   duration |-> "float(duration)", size |-> "int(size)",
   bit_rate |-> "int(bit_rate)", video |-> video, audio |-> audio]

(* get_video_info, lines 112-151: the dictionary built from the probe *)
get_video_info_result(probe) ==
  IF ~probe.format_bit_rate THEN Built("KeyError", "none", Doc("", NoInfo))
  ELSE IF probe.video /\ probe.r_frame_rate[2] = 0
       THEN Built("ZeroDivisionError", "none", Doc("", NoInfo))
  ELSE Built("none", "dict",
             Doc("", <<InfoDict(probe,
                                IF probe.video THEN <<VideoInfo(probe)>> ELSE <<>>,
                                IF probe.audio THEN <<AudioInfo(probe)>> ELSE <<>>)>>))

(* A metadata document without the audio sub-object, to compare against *)
get_video_metadata_no_audio(probe) ==
  IF ~probe.format_bit_rate THEN Built("KeyError", "none", Doc("", NoInfo))
  ELSE IF probe.video /\ probe.r_frame_rate[2] = 0
       THEN Built("ZeroDivisionError", "none", Doc("", NoInfo))
  ELSE Built("none", "json",
             Doc("", <<InfoDict(probe,
                                IF probe.video THEN <<VideoInfo(probe)>> ELSE <<>>,
                                <<>>)>>))

(* get_video_metadata, lines 2452-2491: the same dictionary, through json.dumps *)
get_video_metadata_result(probe) ==
  IF ~probe.format_bit_rate THEN Built("KeyError", "none", Doc("", NoInfo))
  ELSE IF probe.video /\ probe.r_frame_rate[2] = 0
       THEN Built("ZeroDivisionError", "none", Doc("", NoInfo))
  ELSE Built("none", "json",
             Doc("", <<InfoDict(probe,
                                IF probe.video THEN <<VideoInfo(probe)>> ELSE <<>>,
                                IF probe.audio THEN <<AudioInfo(probe)>> ELSE <<>>)>>))

(* result = ffmpeg.run(..., capture_stderr=True); result.stderr: the engine
   binding returns the pair (out, err), which has no attribute stderr *)
run_stderr == Built("AttributeError", "none", Doc("", NoInfo))

(* create_split_screen: border = ffmpeg.filter("color", color=..., size=...)
   when border_width > 0: the binding's filter(stream_spec, filter_name, ...)
   is called without a filter name *)
color_border(a) ==
  Built(IF a.border_width > 0 THEN "TypeError" ELSE "none", "none", Doc("", NoInfo))

ResultOf(t, a) ==
  IF t = "get_video_metadata" THEN get_video_metadata_result(a.media)
  ELSE IF t = "create_split_screen" THEN color_border(a)
  ELSE IF t \in {"detect_scene_changes", "extract_video_statistics"} THEN run_stderr
  ELSE get_video_info_result(a.media)

(* Which exceptions the tool's except clause catches *)
Catches(handler, kind) ==
  handler \in {"exception_str", "resource_json"} \/ kind = "ffmpeg.Error"

(* concatenate_videos: f.write(f"file '{os.path.abspath(path)}'\n") for each
   path: the lines of the list file *)
ListLines(input_paths) ==
  [i \in DOMAIN input_paths |->
     <<"f", "i", "l", "e", " ">> \o <<"'">> \o abspath(input_paths[i]) \o <<"'">>]

(* How the engine's concat format reads a word: a quote opens or closes a
   literal stretch, outside of one a backslash takes the next character as it
   is and a blank ends the word *)
RECURSIVE word(_, _)
word(text, quoted) ==
  IF text = <<>> THEN <<>>
  ELSE IF Head(text) = "'" THEN word(Tail(text), ~quoted)
  ELSE IF ~quoted /\ Head(text) = " " THEN <<>>
  ELSE IF ~quoted /\ Head(text) = "\\" /\ Len(text) > 1
       THEN <<text[2]>> \o word(Tail(Tail(text)), quoted)
  ELSE <<Head(text)>> \o word(Tail(text), quoted)

(* ffmpeg.input(str(list_file), format="concat", safe=0): the file each line
   of the list names to the engine *)
concat_entries(lines) ==
  [i \in DOMAIN lines |-> word(SubSeq(lines[i], 6, Len(lines[i])), FALSE)]


----------------------------------------------------------------------------
(* The resource videos://list (main.py): the video files of the current
   working directory.  A name is a sequence of characters. *)

Entry(name, kind, parent) == [name |-> name, kind |-> kind, parent |-> parent]

(* What the working directory and its subdirectory may hold *)
EntryUniverse ==
  { Entry(<<"b", ".", "m", "p", "4">>, "file", "."),
    Entry(<<"A", ".", "M", "K", "V">>, "file", "."),
    Entry(<<"a", ".", "a", "v", "i">>, "file", "."),
    Entry(<<"c", ".", "m", "o", "v">>, "file", "."),
    Entry(<<"d", ".", "w", "e", "b", "m">>, "file", "."),
    Entry(<<"e", ".", "f", "l", "v">>, "file", "."),
    Entry(<<"f", ".", "w", "m", "v">>, "file", "."),
    Entry(<<"a", ".", "t", "x", "t">>, "file", "."),
    Entry(<<"m", "p", "4">>, "file", "."),
    Entry(<<".", "m", "p", "4">>, "file", "."),
    Entry(<<"g", ".", "m", "p", "4">>, "dir", "."),
    Entry(<<"h", ".", "m", "p", "4">>, "file", "sub") }

(* The characters of the names, in code point order *)
CodeOrder == <<".", "4", "A", "K", "M", "V", "a", "b", "c", "d", "e", "f", "g", "h", "i", "l", "m", "o", "p", "t", "v", "w", "x">>
Ord(ch) == CHOOSE i \in DOMAIN CodeOrder : CodeOrder[i] = ch

UpperCase == <<"A", "K", "M", "V">>
LowerCase == <<"a", "k", "m", "v">>

(* str.lower() *)
lower(text) ==
  [i \in DOMAIN text |->
     IF \E k \in DOMAIN UpperCase : UpperCase[k] = text[i]
     THEN LowerCase[CHOOSE k \in DOMAIN UpperCase : UpperCase[k] = text[i]]
     ELSE text[i]]

(* Path.suffix: from the last dot, when that dot is neither the first nor the
   last character of the name *)
suffix(name) ==
  LET dots == { i \in DOMAIN name : name[i] = "." }
  IN IF dots = {} THEN <<>>
     ELSE LET i == CHOOSE k \in dots : \A j \in dots : j <= k
          IN IF 1 < i /\ i < Len(name) THEN SubSeq(name, i, Len(name)) ELSE <<>>

video_extensions ==
  { <<".", "m", "p", "4">>,
    <<".", "a", "v", "i">>,
    <<".", "m", "o", "v">>,
    <<".", "m", "k", "v">>,
    <<".", "w", "e", "b", "m">>,
    <<".", "f", "l", "v">>,
    <<".", "w", "m", "v">> }

(* str < str: by code points, a proper prefix first *)
RECURSIVE LexLess(_, _)
LexLess(a, b) ==
  IF b = <<>> THEN FALSE
  ELSE IF a = <<>> THEN TRUE
  ELSE IF Head(a) = Head(b) THEN LexLess(Tail(a), Tail(b))
  ELSE Ord(Head(a)) < Ord(Head(b))

(* sorted(...) of a set of distinct names *)
RECURSIVE sorted(_)
sorted(names) ==
  IF names = {} THEN <<>>
  ELSE LET first == CHOOSE x \in names : \A y \in names \ {x} : LexLess(x, y)
       IN <<first>> \o sorted(names \ {first})

(* A listing that skips the extension filter, to compare against *)
list_all_files(d) ==
  sorted({ e.name : e \in { f \in d : f.parent = "." /\ f.kind = "file" } })

(* list_videos: for file in Path(".").iterdir(): if file.is_file() and
   file.suffix.lower() in video_extensions; the JSON document's "videos" *)
list_videos(d) ==
  sorted({ e.name : e \in { f \in d : /\ f.parent = "."
                                      /\ f.kind = "file"
                                      /\ lower(suffix(f.name)) \in video_extensions } })

(* A read that answers from the first read's result, to compare against *)
read_cached(history, d) ==
  IF history = <<>> THEN list_videos(d) ELSE history[1].listing

(* A read of videos://list calls list_videos anew *)
read_list(history, d) == list_videos(d)

MaxEntries == 3
MaxReads == 2

----------------------------------------------------------------------------
(* detect_scene_changes (main.py): from the timestamps of the engine's output
   to the scenes.  Times are in milliseconds. *)

(* round(x, 2): to the nearest hundredth of a second, a tie to the even one *)
round2(x) ==
  LET q == x \div 10
      r == x % 10
  IN IF r < 5 \/ (r = 5 /\ q % 2 = 0) THEN 10 * q ELSE 10 * (q + 1)

(* sorted(set(scene_timestamps)) *)
RECURSIVE sorted_set(_)
sorted_set(S) ==
  IF S = {} THEN <<>>
  ELSE LET least == CHOOSE x \in S : \A y \in S : x <= y
       IN <<least>> \o sorted_set(S \ {least})

all_timestamps(scene_timestamps, duration) ==
  <<0>> \o sorted_set(scene_timestamps) \o <<duration>>

(* for i in range(1, len(all_timestamps)): keep a timestamp that lies at least
   min_scene_length after the last one kept *)
RECURSIVE keep(_, _, _, _)
keep(all, i, kept, min_scene_length) ==
  IF i > Len(all) THEN kept
  ELSE keep(all, i + 1,
            IF all[i] - kept[Len(kept)] >= min_scene_length
            THEN Append(kept, all[i]) ELSE kept,
            min_scene_length)

(* ... if filtered_timestamps[-1] != duration: append duration *)
filtered_timestamps(scene_timestamps, duration, min_scene_length) ==
  LET all == all_timestamps(scene_timestamps, duration)
      kept == keep(all, 2, <<all[1]>>, min_scene_length)
  IN IF kept[Len(kept)] # duration THEN Append(kept, duration) ELSE kept

result_data(scene_timestamps, duration, min_scene_length) ==
  LET f == filtered_timestamps(scene_timestamps, duration, min_scene_length)
      scenes == [i \in 1..(Len(f) - 1) |->
                   [start |-> round2(f[i]), end |-> round2(f[i + 1]),
                    duration |-> round2(f[i + 1] - f[i])]]
  IN [scenes |-> scenes, scene_count |-> Len(scenes),
      total_duration |-> round2(duration)]

(* What the engine may report and the caller may ask *)
SceneTimes == {0, 500, 996, 1500, 2004, 2500, 3000}
Durations == {0, 996, 2004, 2500}
MinSceneLengths == {0, 1000, 2000}

NoWork == [status |-> "none", scene_timestamps |-> {}, duration |-> 0,
           min_scene_length |-> 0,
           result |-> [scenes |-> <<>>, scene_count |-> 0, total_duration |-> 0]]

----------------------------------------------------------------------------
(* The entry point main() (main.py): the environment chooses the transport *)

Env(transport, host, port) ==
  [MCP_TRANSPORT |-> transport, MCP_HOST |-> host, MCP_PORT |-> port]

Transports == {"stdio", "sse", "http", "SSE", ""}
Hosts == {"0.0.0.0"}
Ports == { <<"9", "0", "0", "0">>, <<"a", "b", "c">>, <<>> }

Envs == { Env(t, h, p) : t \in Opt(Transports), h \in Opt(Hosts), p \in Opt(Ports) }

DefaultEnv == Env(<<>>, <<>>, <<>>)

(* os.environ.get(name, default) *)
get(variable, default) == IF variable = <<>> THEN default ELSE variable[1]

(* mcp.run(...) with its keyword arguments; <<>> for one not passed *)
RunCall(transport, host, port) == [transport |-> transport, host |-> host, port |-> port]

Launched(runs, stderr, exit, exc) ==
  [runs |-> runs, stderr |-> stderr, exit |-> exit, exc |-> exc]

(* main(): what it has done when it returns, raises or enters the server *)
main(env) ==
  LET transport == get(env.MCP_TRANSPORT, "stdio")
      text == get(env.MCP_PORT, <<"8", "0", "0", "0">>)
  IN IF transport = "stdio"
     THEN Launched(<<RunCall(<<>>, <<>>, <<>>)>>, <<"Starting on stdio">>, <<>>, "")
     ELSE IF transport = "sse"
     THEN IF IsInt(text)
          THEN Launched(<<RunCall(<<"sse">>, <<get(env.MCP_HOST, "localhost")>>,
                                  <<int(text)>>)>>,
                        <<"Starting on host:port (SSE)">>, <<>>, "")
          ELSE Launched(<<>>, <<>>, <<1>>, "ValueError")
     ELSE Launched(<<>>, <<"Unknown transport">>, <<1>>, "SystemExit")

NotLaunched == Launched(<<>>, <<>>, <<>>, "")

----------------------------------------------------------------------------
(* The state of one call *)

NoExc == [kind |-> "none", stderr |-> FALSE]
NoMsg == [prefix |-> "", detail |-> "none"]
NoSrc == -1
Missing == -2

Idle ==
  [status |-> "idle", tool |-> "-", args |-> NoArgs, ctx |-> FALSE, server |-> 0,
   pc |-> 0, iter |-> 0, mode |-> "body", exc |-> NoExc, outcome |-> "none",
   message |-> NoMsg, ctxErrors |-> <<>>, engine |-> <<>>, created |-> {},
   swallowed |-> 0, result |-> NoResult, written |-> 0]

Init ==
  /\ calls = [c \in Calls |-> Idle]
  /\ fs \in { [p \in FilePaths |-> IF p = TransformsFile THEN f ELSE Absent] :
                f \in {Absent, File(0, <<>>)} }
  /\ loop = [s \in Servers |-> 0]
  /\ cwd = {}
  /\ reads = <<>>
  /\ proc \in { [status |-> "created", env |-> e, did |-> NotLaunched] : e \in Envs }
  /\ work = NoWork

Min(a, b) == IF a < b THEN a ELSE b

(* The server under study serves: launched with no variable set *)
Serving == proc.status = "serving" /\ proc.env = DefaultEnv

Cur(c) == StepsOf(calls[c].tool)[calls[c].pc]

(* The call may run: its server's event loop is free or already its own *)
Scheduled(c) == loop[calls[c].server] \in {0, c}

Ready(c, ops) ==
  /\ calls[c].status = "running"
  /\ calls[c].mode = "body"
  /\ Scheduled(c)
  /\ Cur(c).op \in ops

Hold(c) == loop' = [loop EXCEPT ![calls[c].server] = c]
Yield(c) == loop' = [loop EXCEPT ![calls[c].server] = 0]

Advanced(r) == [r EXCEPT !.pc = NextPc(r.tool, r.args, r.pc + 1)]

Thrown(r, kind, stderr) ==
  [r EXCEPT !.mode = "caught", !.exc = [kind |-> kind, stderr |-> stderr]]

Ended(r, outcome, message) ==
  [r EXCEPT !.status = "done", !.outcome = outcome, !.message = message]

EngineEntry(op, ok, cmd, src) == [op |-> op, ok |-> ok, cmd |-> cmd, src |-> src]

Logged(r, entry) == [r EXCEPT !.engine = Append(r.engine, entry)]

(* The file a tool's engine command names besides the call's own inputs *)
ReadsFile(t) == t \in SharingTools
FileRead(t, a) ==
  IF t = "concatenate_videos" THEN ListFile(a.output_path) ELSE TransformsFile

(* Call c may be made now, and may be a call of tool t *)
MayInvoke(c, t) ==
  /\ calls[c].status = "idle"
  /\ Serving
  /\ cwd = {} /\ reads = <<>>
  /\ \/ c = 1
     \/ /\ c > 1
        /\ calls[c - 1].status # "idle"
        /\ \E g \in SharingGroups :
             t \in g /\ \A d \in 1..(c - 1) : calls[d].tool \in g

(* The client calls a tool; its coroutine starts in the body.  Calls overlap
   only among the tools that touch a file of a fixed name, and the first call's
   output path is fixed, the names being interchangeable. *)
Invoke(c, t, a, x, s) ==
  /\ MayInvoke(c, t)
  /\ (c = 1 /\ t = "concatenate_videos") => a.output_path = FirstOutput
  /\ x => Programs[t].ctxParam
  /\ calls' = [calls EXCEPT ![c] =
                 [Idle EXCEPT !.status = "running", !.tool = t, !.args = a,
                              !.ctx = x, !.server = s,
                              !.pc = NextPc(t, a, 1), !.iter = 1]]
  /\ UNCHANGED <<fs, loop>>

(* if <bad argument>: raise ValueError(msg) *)
Validate(c) ==
  /\ Ready(c, {"check"})
  /\ IF Fails(Cur(c).name, calls[c].args)
     THEN /\ calls' = [calls EXCEPT ![c] =
                 Ended(@, "ValueError", [prefix |-> Cur(c).msg, detail |-> "none"])]
          /\ Yield(c)
     ELSE /\ calls' = [calls EXCEPT ![c] = Advanced(@)]
          /\ Hold(c)
  /\ UNCHANGED fs

(* if ctx: await ctx.info(...) *)
LogInfo(c) ==
  /\ Ready(c, {"info"})
  /\ calls' = [calls EXCEPT ![c] = Advanced(@)]
  /\ IF calls[c].ctx THEN Yield(c) ELSE Hold(c)
  /\ UNCHANGED fs

(* ffmpeg.probe(path): always captures the engine's stderr *)
Probe(c) ==
  /\ Ready(c, {"probe"})
  /\ \E ok \in BOOLEAN :
       /\ ok => calls[c].args.media.exists
       /\ LET r == Logged(calls[c], EngineEntry("probe", ok, NoCmd, NoSrc))
          IN calls' = [calls EXCEPT ![c] =
                      IF ok THEN Advanced(r) ELSE Thrown(r, "ffmpeg.Error", TRUE)]
  /\ Hold(c)
  /\ UNCHANGED fs

(* get_video_info / get_video_metadata: build the info dictionary from the
   probe; a missing key or eval("0/0") raises *)
Build(c) ==
  LET b == ResultOf(calls[c].tool, calls[c].args)
  IN /\ Ready(c, {"build"})
     /\ calls' = [calls EXCEPT ![c] =
           IF b.raises = "none" THEN Advanced([@ EXCEPT !.result = b.result])
           ELSE Thrown(@, b.raises, FALSE)]
     /\ Hold(c)
     /\ UNCHANGED fs

(* What one engine run of the call sees and does *)
RunEntry(c, ok) ==
  LET t == calls[c].tool
      a == calls[c].args
      f == fs[FileRead(t, a)]
      cmd == IF t = "concatenate_videos"
             THEN [NoCmd EXCEPT !.list = f.lines]
             ELSE BuildCmd(t, a)
      src == IF ReadsFile(t) THEN (IF f.present THEN f.writer ELSE Missing)
             ELSE NoSrc
  IN EngineEntry("run", ok, cmd, src)

CanSucceed(c) ==
  ReadsFile(calls[c].tool) => fs[FileRead(calls[c].tool, calls[c].args)].present

(* ffmpeg.run(...) inside the tool's try block *)
Run(c) ==
  /\ Ready(c, {"run", "run_captured"})
  /\ \E ok \in BOOLEAN :
       /\ ok => CanSucceed(c)
       /\ LET r == Logged(calls[c], RunEntry(c, ok))
          IN calls' = [calls EXCEPT ![c] =
                IF ok THEN Advanced(r)
                ELSE Thrown(r, "ffmpeg.Error", Cur(c).op = "run_captured")]
  /\ Hold(c)
  /\ UNCHANGED fs

(* extract_frames: the output directory and the frame files in it,
   frame_0001 onwards *)
FramesDir == <<"frames", "">>
MaxFrames == 2
FrameFiles(n) == [i \in 1..n |-> i]

(* extract_frames: ffmpeg.run(output, overwrite_output=True): the engine
   writes frame_0001 to frame_<n>, over the files of these names, and leaves
   the other files of the directory *)
RunFrames(c) ==
  /\ Ready(c, {"run_frames"})
  /\ \E ok \in BOOLEAN, n \in 0..MaxFrames :
       /\ ~ok => n = 0
       /\ LET r == Logged(calls[c], RunEntry(c, ok))
              old == fs[FramesDir].lines
          IN /\ calls' = [calls EXCEPT ![c] =
                   IF ok THEN Advanced([r EXCEPT !.written = n])
                   ELSE Thrown(r, "ffmpeg.Error", FALSE)]
             /\ fs' = [fs EXCEPT ![FramesDir].lines =
                         IF n > Len(old) THEN FrameFiles(n) ELSE old]
  /\ Hold(c)

(* extract_frames: frame_count = len(list(Path(output_dir).glob("frame_*"))) *)
CountFrames(c) ==
  /\ Ready(c, {"glob"})
  /\ calls' = [calls EXCEPT ![c] =
        Advanced([@ EXCEPT !.result =
          [format |-> "str",
           doc |-> Doc("", <<[frame_count |-> Len(fs[FramesDir].lines)]>>)]])]
  /\ Hold(c)
  /\ UNCHANGED fs

(* try: ffmpeg.run(...) except Exception: stats[...] = {"error": ...} *)
RunSwallowed(c) ==
  /\ Ready(c, {"run_swallowed"})
  /\ \E ok \in BOOLEAN :
       LET r == Advanced(Logged(calls[c], RunEntry(c, ok)))
       IN calls' = [calls EXCEPT ![c] =
                      IF ok THEN r ELSE [r EXCEPT !.swallowed = @ + 1]]
  /\ Hold(c)
  /\ UNCHANGED fs

(* batch_process_videos: one file of the batch; except Exception records the
   failure, reports it through ctx.error and the loop goes on *)
RunItem(c) ==
  /\ Ready(c, {"run_item"})
  /\ \E ok \in BOOLEAN :
       LET r == Advanced(Logged(calls[c], RunEntry(c, ok)))
           text == [prefix |-> "Failed to process ", detail |-> "str(e)"]
       IN /\ calls' = [calls EXCEPT ![c] =
                IF ok THEN r
                ELSE [r EXCEPT !.swallowed = @ + 1,
                               !.ctxErrors = IF r.ctx THEN Append(@, text) ELSE @]]
          /\ IF ~ok /\ calls[c].ctx THEN Yield(c) ELSE Hold(c)
  /\ UNCHANGED fs

(* for ... in ...: the next round of a loop, or past it *)
NextItem(c) ==
  /\ Ready(c, {"next_item"})
  /\ calls' = [calls EXCEPT ![c] =
        IF @.iter < @.args.items
        THEN [@ EXCEPT !.pc = Cur(c).to, !.iter = @ + 1]
        ELSE Advanced(@)]
  /\ Hold(c)
  /\ UNCHANGED fs

(* Path(...).mkdir(parents=True, exist_ok=True) *)
Mkdir(c) ==
  LET dir == <<Cur(c).name, "">>
  IN /\ Ready(c, {"mkdir"})
     /\ fs' = IF fs[dir].present THEN fs ELSE [fs EXCEPT ![dir] = File(c, <<>>)]
     /\ calls' = [calls EXCEPT ![c] =
           Advanced([@ EXCEPT !.created = IF fs[dir].present THEN @ ELSE @ \cup {dir}])]
     /\ Hold(c)

(* concatenate_videos: with open(list_file, "w") as f: one line per input *)
WriteList(c) ==
  LET list_file == ListFile(calls[c].args.output_path)
  IN /\ Ready(c, {"write_list"})
     /\ fs' = [fs EXCEPT ![list_file] = File(c, ListLines(calls[c].args.input_paths))]
     /\ calls' = [calls EXCEPT ![c] =
           Advanced([@ EXCEPT !.created = @ \cup {list_file}])]
     /\ Hold(c)

(* concatenate_videos: list_file.unlink(), FileNotFoundError when it is gone *)
UnlinkList(c) ==
  LET list_file == ListFile(calls[c].args.output_path)
  IN /\ Ready(c, {"unlink_list"})
     /\ IF fs[list_file].present
        THEN /\ fs' = [fs EXCEPT ![list_file] = Absent]
             /\ calls' = [calls EXCEPT ![c] = Advanced(@)]
        ELSE /\ fs' = fs
             /\ calls' = [calls EXCEPT ![c] = Thrown(@, "FileNotFoundError", FALSE)]
     /\ Hold(c)

(* apply_video_stabilization: os.remove("transforms.trf"), a missing file passes *)
RemoveTransforms(c) ==
  /\ Ready(c, {"remove_transforms"})
  /\ fs' = [fs EXCEPT ![TransformsFile] = Absent]
  /\ calls' = [calls EXCEPT ![c] = Advanced(@)]
  /\ Hold(c)

(* return <result> *)
Return(c) ==
  /\ Ready(c, {"return"})
  /\ calls' = [calls EXCEPT ![c] = Ended(@, "success", NoMsg)]
  /\ Yield(c)
  /\ UNCHANGED fs

(* The text the tool's except clause builds from the exception *)
HandlerMessage(handler, exc) ==
  CASE handler = "ffmpeg_stderr" ->
         [prefix |-> "FFmpeg error: ",
          detail |-> IF exc.stderr THEN "stderr" ELSE "str(e)"]
    [] handler = "pkg_stderr" ->
         [prefix |-> "FFmpeg error: ",
          detail |-> IF exc.stderr THEN "stderr" ELSE "str(e)"]
    [] handler = "exception_str" ->
         [prefix |-> "Error concatenating videos: ", detail |-> "str(e)"]
    [] handler = "probe_str" ->
         [prefix |-> "Error getting video info: ", detail |-> "str(e)"]

(* except ...: error_msg = ...; if ctx: await ctx.error(error_msg) *)
Catch(c) ==
  LET text == HandlerMessage(Programs[calls[c].tool].handler, calls[c].exc)
  IN /\ calls[c].status = "running"
     /\ calls[c].mode = "caught"
     /\ Scheduled(c)
     /\ Programs[calls[c].tool].handler # "resource_json"
     /\ Catches(Programs[calls[c].tool].handler, calls[c].exc.kind)
     /\ calls' = [calls EXCEPT ![c] =
           [@ EXCEPT !.mode = "raising", !.message = text,
                     !.ctxErrors = IF calls[c].ctx THEN Append(@, text) ELSE @]]
     /\ IF calls[c].ctx THEN Yield(c) ELSE Hold(c)
     /\ UNCHANGED fs

(* raise RuntimeError(error_msg) *)
Raise(c) ==
  /\ calls[c].status = "running"
  /\ calls[c].mode = "raising"
  /\ Scheduled(c)
  /\ calls' = [calls EXCEPT ![c] = Ended(@, "RuntimeError", @.message)]
  /\ Yield(c)
  /\ UNCHANGED fs

(* An exception the except clause does not name leaves the call as it is *)
Propagate(c) ==
  /\ calls[c].status = "running"
  /\ calls[c].mode = "caught"
  /\ Scheduled(c)
  /\ ~Catches(Programs[calls[c].tool].handler, calls[c].exc.kind)
  /\ calls' = [calls EXCEPT ![c] = Ended(@, @.exc.kind, NoMsg)]
  /\ Yield(c)
  /\ UNCHANGED fs

(* get_video_metadata: except Exception as e: return json.dumps({"error": str(e)}) *)
ReturnError(c) ==
  /\ calls[c].status = "running"
  /\ calls[c].mode = "caught"
  /\ Scheduled(c)
  /\ Programs[calls[c].tool].handler = "resource_json"
  /\ calls' = [calls EXCEPT ![c] =
        Ended([@ EXCEPT !.result = [format |-> "json", doc |-> Doc("str(e)", NoInfo)]],
              "success", NoMsg)]
  /\ Yield(c)
  /\ UNCHANGED fs

NoCalls == \A c \in Calls : calls[c].status = "idle"

(* Something outside the server creates a file or a directory *)
CreateEntry(e) ==
  /\ NoCalls
  /\ Serving
  /\ e \notin cwd
  /\ Cardinality(cwd) < MaxEntries
  /\ cwd' = cwd \cup {e}
  /\ UNCHANGED <<calls, fs, loop, reads, proc, work>>

(* A client reads videos://list *)
ReadList ==
  /\ NoCalls
  /\ Serving
  /\ Len(reads) < MaxReads
  /\ reads' = Append(reads, [listing |-> read_list(reads, cwd), cwd |-> cwd])
  /\ UNCHANGED <<calls, fs, loop, cwd, proc, work>>

(* The process is started: main() runs to its end or into the server *)
Main ==
  /\ proc.status = "created"
  /\ proc' = [proc EXCEPT !.did = main(proc.env),
                          !.status = IF main(proc.env).exit = <<>> THEN "serving"
                                     ELSE "exited"]
  /\ UNCHANGED <<calls, fs, loop, cwd, reads, work>>

ToolStep ==
  \E c \in Calls :
    \/ \E t \in { u \in ToolNames : MayInvoke(c, u) } :
         \E x \in BOOLEAN, s \in 1..Min(c, MaxServers), a \in ArgsOf(t) :
           Invoke(c, t, a, x, s)
    \/ Validate(c)
    \/ LogInfo(c)
    \/ Probe(c)
    \/ Run(c)
    \/ RunSwallowed(c)
    \/ RunItem(c)
    \/ NextItem(c)
    \/ Mkdir(c)
    \/ WriteList(c)
    \/ UnlinkList(c)
    \/ RemoveTransforms(c)
    \/ Return(c)
    \/ Catch(c)
    \/ Raise(c)
    \/ Build(c)
    \/ Propagate(c)
    \/ ReturnError(c)
    \/ RunFrames(c)
    \/ CountFrames(c)

Next ==
  \/ ToolStep /\ UNCHANGED <<cwd, reads, proc, work>>
  \/ Main
  \/ \E e \in EntryUniverse : CreateEntry(e)
  \/ ReadList

Spec == Init /\ [][Next]_vars

(* The scene computation of detect_scene_changes on its own: the timestamps
   parsed from the engine's output, the probed duration and the parameter *)
SceneInit ==
  /\ calls = [c \in Calls |-> Idle]
  /\ fs = [p \in FilePaths |-> Absent]
  /\ loop = [s \in Servers |-> 0]
  /\ cwd = {}
  /\ reads = <<>>
  /\ proc = [status |-> "created", env |-> DefaultEnv, did |-> NotLaunched]
  /\ work \in { [NoWork EXCEPT !.status = "parsed", !.scene_timestamps = ts,
                               !.duration = d, !.min_scene_length = m] :
                  ts \in SUBSET SceneTimes, d \in Durations, m \in MinSceneLengths }

BuildScenes ==
  /\ work.status = "parsed"
  /\ work' = [work EXCEPT !.status = "built",
                          !.result = result_data(work.scene_timestamps, work.duration,
                                                 work.min_scene_length)]
  /\ UNCHANGED <<calls, fs, loop, cwd, reads, proc>>

SceneNext == BuildScenes

(* The sizes create_split_screen computes, on their own: the layout and the
   accepted border widths *)
SplitInit ==
  /\ calls = [c \in Calls |-> Idle]
  /\ fs = [p \in FilePaths |-> Absent]
  /\ loop = [s \in Servers |-> 0]
  /\ cwd = {}
  /\ reads = <<>>
  /\ proc = [status |-> "created", env |-> DefaultEnv, did |-> NotLaunched]
  /\ work \in { [status |-> "given", layout |-> l, border_width |-> b,
                  stack |-> Stack(<<>>, <<>>)] :
                  l \in {"vertical", "horizontal", "quad"}, b \in 0..20 }

BuildSplit ==
  /\ work.status = "given"
  /\ work' = [work EXCEPT !.status = "stacked",
                          !.stack = split_stack(work.layout, work.border_width)]
  /\ UNCHANGED <<calls, fs, loop, cwd, reads, proc>>

SplitNext == BuildSplit

SplitSpec == SplitInit /\ [][SplitNext]_vars

SceneSpec == SceneInit /\ [][SceneNext]_vars

----------------------------------------------------------------------------
TypeOK ==
  /\ \A c \in Calls : calls[c].status \in {"idle", "running", "done"}
  /\ \A s \in Servers : loop[s] \in {0} \cup Calls
  /\ cwd \subseteq EntryUniverse
  /\ proc.status \in {"created", "serving", "exited"}
  /\ proc.env \in Envs
  /\ Len(reads) <= MaxReads

----------------------------------------------------------------------------
(* Observations on calls *)

Started(c) == calls[c].status # "idle"
Finished(c) == calls[c].status = "done"
FailedEntries(c) == { i \in DOMAIN calls[c].engine : ~calls[c].engine[i].ok }
EngineFailed(c) == FailedEntries(c) # {}
Sent(c, text) == \E i \in DOMAIN calls[c].ctxErrors : calls[c].ctxErrors[i] = text
IsTool(c, t) == Started(c) /\ calls[c].tool = t

(* C1: whenever a call fails with a ValueError, it has started no engine
   invocation (probe or run) and has created no file or directory. *)
C1_ValidationBeforeEngine ==
  \A c \in Calls :
    calls[c].outcome = "ValueError" =>
      calls[c].engine = <<>> /\ calls[c].created = {}

(* C2: when an engine invocation of a call fails, the call raises a
   RuntimeError whose message carries the engine's stderr text, and with a
   context present the same message was sent through ctx.error first. *)
C2_EngineErrorCarriesStderr ==
  \A c \in Calls :
    (Finished(c) /\ EngineFailed(c)) =>
      /\ calls[c].outcome = "RuntimeError"
      /\ calls[c].message.detail = "stderr"
      /\ calls[c].ctx => Sent(c, calls[c].message)

(* C3: a failed engine invocation is the call's last one, and a call with a
   failed engine invocation never ends in success. *)
C3_EngineFailureTerminal ==
  \A c \in Calls :
    /\ \A i \in FailedEntries(c) : i = Len(calls[c].engine)
    /\ (Finished(c) /\ EngineFailed(c)) => calls[c].outcome # "success"

(* C4: of two calls with distinct output paths, neither one's engine
   invocation reads data that the other call wrote. *)
C4_NoSharedState ==
  \A c \in Calls : \A d \in Calls \ {c} :
    (Started(c) /\ Started(d) /\ calls[c].args.output_path # calls[d].args.output_path) =>
      \A i \in DOMAIN calls[c].engine : calls[c].engine[i].src # d

(* C5: a concatenate_videos call that created its list file has left it
   absent once the call has ended, in success or in error. *)
C5_ListFileGone ==
  \A c \in Calls :
    LET list_file == ListFile(calls[c].args.output_path)
    IN (IsTool(c, "concatenate_videos") /\ Finished(c) /\ list_file \in calls[c].created) =>
         ~(fs[list_file].present /\ fs[list_file].writer = c)

(* C6: concatenate_videos with fewer than 2 input paths never gets past its
   first check, writes no list file, invokes no engine, and ends with the
   ValueError "Need at least 2 videos to concatenate". *)
C6_ConcatNeedsTwo ==
  \A c \in Calls :
    (IsTool(c, "concatenate_videos") /\ Len(calls[c].args.input_paths) < 2) =>
      /\ calls[c].engine = <<>>
      /\ calls[c].created = {}
      /\ \A d \in Dirs : fs[<<d, "concat_list.txt">>].writer # c
      /\ ~Finished(c) => Cur(c).op = "check"
      /\ Finished(c) =>
           /\ calls[c].outcome = "ValueError"
           /\ calls[c].message.prefix = "Need at least 2 videos to concatenate"

C6_Witness ==
  \E c \in Calls :
    /\ IsTool(c, "concatenate_videos")
    /\ Len(calls[c].args.input_paths) = 1
    /\ Finished(c)
    /\ calls[c].outcome = "ValueError"

(* The atempo chains the call handed to the engine *)
ChainsRun(c) ==
  { calls[c].engine[i].cmd.atempo :
      i \in { j \in DOMAIN calls[c].engine : calls[c].engine[j].op = "run" } }

RECURSIVE Pow2(_)
Pow2(k) == IF k = 0 THEN 1 ELSE 2 * Pow2(k - 1)

(* speed / 2^k *)
Halved(speed, k) == <<speed[1], speed[2] * Pow2(k)>>

MaxHalvings == 8

(* The number of halvings that bring speed down to at most 2.0 *)
Halvings(speed) ==
  CHOOSE k \in 0..MaxHalvings :
    /\ QLe(Halved(speed, k), Two)
    /\ \A j \in 0..(k - 1) : QLt(Two, Halved(speed, j))

(* C7: for every speed > 2.0 the chain that change_speed hands to the engine
   is one stage of exactly 2.0 per halving until the remainder is <= 2.0, then
   one final stage equal to the remainder, which is > 1; the product of the
   stages is the speed; speed 4.0 gives exactly two stages of 2.0. *)
C7_AtempoDecomposition ==
  \A c \in Calls :
    (IsTool(c, "change_speed") /\ QLt(Two, calls[c].args.speed)) =>
      \A chain \in ChainsRun(c) :
        LET speed == calls[c].args.speed
            k == Halvings(speed)
            remaining == Halved(speed, k)
        IN /\ k >= 1
           /\ Len(chain) = k + 1
           /\ \A i \in 1..k : chain[i] = Two
           /\ QLt(One, remaining)
           /\ QEq(chain[k + 1], remaining)
           /\ QEq(QProduct(chain), speed)
           /\ QEq(speed, Four) =>
                (Len(chain) = 2 /\ QEq(chain[1], Two) /\ QEq(chain[2], Two))

C7_Witness ==
  \E c \in Calls :
    /\ IsTool(c, "change_speed")
    /\ QEq(calls[c].args.speed, Four)
    /\ \E chain \in ChainsRun(c) : Len(chain) = 2

(* C8: in both change_speed implementations no atempo stage handed to the
   engine has a factor greater than 2.0. *)
C8_NoStageAboveTwo ==
  \A c \in Calls :
    (IsTool(c, "change_speed") \/ IsTool(c, "pkg_change_speed")) =>
      \A chain \in ChainsRun(c) :
        \A i \in DOMAIN chain : QLe(chain[i], Two)

(* C9: change_speed (main.py) with speed <= 0 never gets past its check,
   invokes no engine, and ends with the ValueError
   "Speed must be greater than 0". *)
C9_SpeedMustBePositive ==
  \A c \in Calls :
    (IsTool(c, "change_speed") /\ QLe(calls[c].args.speed, Zero)) =>
      /\ calls[c].engine = <<>>
      /\ ~Finished(c) => Cur(c).op = "check"
      /\ Finished(c) =>
           /\ calls[c].outcome = "ValueError"
           /\ calls[c].message.prefix = "Speed must be greater than 0"

C9_Witness ==
  \E c \in Calls :
    /\ IsTool(c, "change_speed")
    /\ QEq(calls[c].args.speed, Zero)
    /\ Finished(c)
    /\ calls[c].outcome = "ValueError"

(* C10: trim_video with a negative start_time, or with a duration that is
   given and not positive, invokes no engine and ends with a ValueError. *)
C10_TrimRejectsBadTimes ==
  \A c \in Calls :
    LET a == calls[c].args
    IN (IsTool(c, "trim_video")
        /\ (a.start_time < 0 \/ (a.duration # <<>> /\ a.duration[1] <= 0))) =>
         /\ calls[c].engine = <<>>
         /\ Finished(c) => calls[c].outcome = "ValueError"

(* The commands the call handed to the engine through ffmpeg.run *)
CmdsRun(c) ==
  { calls[c].engine[i].cmd :
      i \in { j \in DOMAIN calls[c].engine : calls[c].engine[j].op = "run" } }

(* C11: every trim_video command seeks to start_time and uses stream copy;
   when a duration is supplied the output is limited to exactly that
   duration, and the limit is left off only when the duration is omitted. *)
C11_TrimCommand ==
  \A c \in Calls :
    IsTool(c, "trim_video") =>
      \A cmd \in CmdsRun(c) :
        LET a == calls[c].args
        IN /\ cmd.ss = <<a.start_time>>
           /\ cmd.c = "copy"
           /\ a.duration # <<>> => cmd.t = a.duration
           /\ a.duration = <<>> => cmd.t = <<>>

Given(o) == o # <<>>

(* The sizing parameters are one of: width alone, height alone, scale alone,
   width and height together *)
ProperSizing(a) ==
  \/ (Given(a.width) /\ ~Given(a.height) /\ ~Given(a.scale))
  \/ (~Given(a.width) /\ Given(a.height) /\ ~Given(a.scale))
  \/ (~Given(a.width) /\ ~Given(a.height) /\ Given(a.scale))
  \/ (Given(a.width) /\ Given(a.height) /\ ~Given(a.scale))

(* C12: resize_video ends with a ValueError, with no engine invocation, unless
   its sizing parameters are width alone, height alone, scale alone, or width
   and height together. *)
C12_ResizeExactlyOneSizing ==
  \A c \in Calls :
    (IsTool(c, "resize_video") /\ ~ProperSizing(calls[c].args)) =>
      /\ calls[c].engine = <<>>
      /\ Finished(c) => calls[c].outcome = "ValueError"

(* The cases of C13: the scale factor 15.0, or width and height both supplied *)
LargeScaleOrBoth(a) ==
  \/ a.scale = << <<15, 1>> >>
  \/ (Truthy(a.width) /\ Truthy(a.height))

(* C13 as stated: a resize_video call with scale 15.0, or with width and
   height both supplied, never ends in success. *)
C13_ResizeRejects ==
  \A c \in Calls :
    (IsTool(c, "resize_video") /\ LargeScaleOrBoth(calls[c].args) /\ Finished(c)) =>
      calls[c].outcome # "success"

(* C13, amended: a resize_video call with scale 15.0, or with width and
   height both supplied, passes validation and hands its scale operation to
   the engine; it ends in success when the engine run succeeds and in
   RuntimeError only when the engine run fails. *)
C13_ResizeAccepts ==
  \A c \in Calls :
    (IsTool(c, "resize_video") /\ LargeScaleOrBoth(calls[c].args)) =>
      /\ calls[c].outcome # "ValueError"
      /\ Finished(c) =>
           /\ calls[c].engine # <<>>
           /\ calls[c].outcome = IF EngineFailed(c) THEN "RuntimeError" ELSE "success"

C13_Witness ==
  \E c \in Calls :
    /\ IsTool(c, "resize_video")
    /\ Truthy(calls[c].args.width) /\ Truthy(calls[c].args.height)
    /\ ~Given(calls[c].args.scale)
    /\ Finished(c)
    /\ calls[c].outcome = "success"

(* C14: the scale operation resize_video hands to the engine is: with width
   only, the width and -1; with height only, -1 and the height; with width and
   height, those two values; with scale s, iw*s and ih*s. *)
C14_ResizeScaleOp ==
  \A c \in Calls :
    IsTool(c, "resize_video") =>
      \A cmd \in CmdsRun(c) :
        LET a == calls[c].args
            w == a.width
            h == a.height
        IN /\ (Truthy(w) /\ ~Truthy(h) /\ ~TruthyQ(a.scale)) =>
                cmd.scale = <<Px(w[1]), Px(-1)>>
           /\ (~Truthy(w) /\ Truthy(h) /\ ~TruthyQ(a.scale)) =>
                cmd.scale = <<Px(-1), Px(h[1])>>
           /\ (Truthy(w) /\ Truthy(h) /\ ~TruthyQ(a.scale)) =>
                cmd.scale = <<Px(w[1]), Px(h[1])>>
           /\ TruthyQ(a.scale) =>
                /\ cmd.scale[1].of = "iw" /\ QEq(cmd.scale[1].factor, a.scale[1])
                /\ cmd.scale[2].of = "ih" /\ QEq(cmd.scale[2].factor, a.scale[1])

C14_Witness ==
  \E c \in Calls :
    /\ IsTool(c, "resize_video")
    /\ Truthy(calls[c].args.width)
    /\ ~Given(calls[c].args.height)
    /\ ~Given(calls[c].args.scale)
    /\ \E cmd \in CmdsRun(c) : cmd.scale[2] = Px(-1)

MaxGrid == 3

(* The layout text "CxR" for one-digit C and R *)
LayoutText(C, R) == <<DigitChars[C + 1], "x", DigitChars[R + 1]>>

(* C15: create_video_mosaic with layout "CxR" and fewer than C*R input paths
   never gets past its checks, invokes no engine, creates nothing, and ends
   with a ValueError. *)
C15_MosaicNeedsEnoughInputs ==
  \A c \in Calls : \A C \in 1..MaxGrid, R \in 1..MaxGrid :
    (/\ IsTool(c, "create_video_mosaic")
     /\ calls[c].args.layout = LayoutText(C, R)
     /\ Len(calls[c].args.input_paths) < C * R) =>
      /\ calls[c].engine = <<>>
      /\ calls[c].created = {}
      /\ ~Finished(c) => Cur(c).op = "check"
      /\ Finished(c) => calls[c].outcome = "ValueError"

C15_Witness ==
  \E c \in Calls :
    /\ IsTool(c, "create_video_mosaic")
    /\ calls[c].args.layout = LayoutText(2, 2)
    /\ Len(calls[c].args.input_paths) = 3
    /\ Finished(c)
    /\ calls[c].outcome = "ValueError"

(* The nearest value inside [0, 1] *)
Clamp(value) ==
  IF QLt(value, Zero) THEN Zero ELSE IF QLt(One, value) THEN One ELSE value

InUnit(value) == QLe(Zero, value) /\ QLe(value, One)

(* C16 as stated: create_green_screen_effect never fails on similarity, blend
   or spill_reduction, and the values it hands to the engine are the supplied
   values clamped to [0, 1]. *)
C16_GreenScreenClamps ==
  \A c \in Calls :
    IsTool(c, "create_green_screen_effect") =>
      /\ calls[c].outcome # "ValueError"
      /\ \A cmd \in CmdsRun(c) :
           cmd.chromakey = <<Clamp(calls[c].args.similarity), Clamp(calls[c].args.blend)>>

(* C16, amended: create_green_screen_effect rejects with a ValueError, before
   any engine invocation, every call whose similarity, blend or
   spill_reduction lies outside [0, 1]; values inside [0, 1] are handed to the
   engine unchanged (spill_reduction as the despill mix, when it is > 0). *)
C16_GreenScreenRejects ==
  \A c \in Calls :
    IsTool(c, "create_green_screen_effect") =>
      LET a == calls[c].args
          inside == InUnit(a.similarity) /\ InUnit(a.blend) /\ InUnit(a.spill_reduction)
      IN /\ ~inside =>
              /\ calls[c].engine = <<>>
              /\ ~Finished(c) => Cur(c).op = "check"
              /\ Finished(c) => calls[c].outcome = "ValueError"
         /\ inside =>
              /\ calls[c].outcome # "ValueError"
              /\ \A cmd \in CmdsRun(c) :
                   /\ cmd.chromakey = <<a.similarity, a.blend>>
                   /\ cmd.despill = IF QLt(Zero, a.spill_reduction)
                                    THEN <<a.spill_reduction>> ELSE <<>>

C16_Witness ==
  \E c \in Calls :
    /\ IsTool(c, "create_green_screen_effect")
    /\ calls[c].args.similarity = <<3, 2>>
    /\ Finished(c)
    /\ calls[c].outcome = "ValueError"

(* C17: a read of the metadata resource for a file that does not exist does
   not end as a successful read. *)
C17_MetadataMissingFileIsError ==
  \A c \in Calls :
    (IsTool(c, "get_video_metadata") /\ ~calls[c].args.media.exists /\ Finished(c)) =>
      calls[c].outcome # "success"

(* C20: for a file the engine probes successfully, the metadata resource and
   get_video_info return the same structure and values: whenever one of them
   returns an info dictionary so does the other for the same probe output,
   the two are equal field by field, and the video and audio sub-objects are
   present exactly when the file has such a stream. *)
C20_MetadataMatchesInfo ==
  \A c \in Calls :
    LET probe == calls[c].args.media
        tool == get_video_info_result(probe)
        resource == get_video_metadata_result(probe)
        r == calls[c].result
    IN /\ (IsTool(c, "get_video_info") /\ Finished(c) /\ calls[c].outcome = "success") =>
            /\ r.format = "dict"
            /\ resource.raises = "none"
            /\ resource.result.format = "json"
            /\ resource.result.doc = r.doc
       /\ (IsTool(c, "get_video_metadata") /\ Finished(c) /\ r.doc.error = "") =>
            /\ r.format = "json"
            /\ tool.raises = "none"
            /\ tool.result.format = "dict"
            /\ tool.result.doc = r.doc
            /\ (r.doc.info[1].video # <<>>) <=> probe.video
            /\ (r.doc.info[1].audio # <<>>) <=> probe.audio

C20_Witness ==
  \E c \in Calls :
    /\ IsTool(c, "get_video_metadata")
    /\ Finished(c)
    /\ calls[c].result.doc.error = ""
    /\ calls[c].result.doc.info # <<>>
    /\ calls[c].result.doc.info[1].video # <<>>
    /\ calls[c].result.doc.info[1].audio # <<>>

(* What a listing is expected to hold, in the words of the description: a
   regular file directly in the working directory whose name ends, whatever
   the case of its letters, with one of the seven extensions after a stem *)
ListedExtensions ==
  { <<".", "m", "p", "4">>,
    <<".", "a", "v", "i">>,
    <<".", "m", "o", "v">>,
    <<".", "m", "k", "v">>,
    <<".", "w", "e", "b", "m">>,
    <<".", "f", "l", "v">>,
    <<".", "w", "m", "v">> }

EndsWith(name, ext) ==
  /\ Len(name) > Len(ext)
  /\ lower(SubSeq(name, Len(name) - Len(ext) + 1, Len(name))) = ext

IsVideoFile(e) ==
  /\ e.parent = "."
  /\ e.kind = "file"
  /\ \E ext \in ListedExtensions : EndsWith(e.name, ext)

Listed(r) == { r.listing[k] : k \in DOMAIN r.listing }

(* C18: every read of videos://list returns exactly the names of the regular
   files directly in the working directory whose extension is, whatever its
   case, one of the seven video extensions: each of them once, nothing else
   (no other file, no directory, no file of a subdirectory), in ascending
   order *)
C18_ListsExactlyTheVideos ==
  \A i \in DOMAIN reads :
    LET r == reads[i]
        expected == { e.name : e \in { f \in r.cwd : IsVideoFile(f) } }
    IN /\ Listed(r) = expected
       /\ Len(r.listing) = Cardinality(expected)
       /\ \A j, k \in DOMAIN r.listing : j < k => LexLess(r.listing[j], r.listing[k])

(* A read of a directory of three entries, two of them videos (one with an
   upper case extension), the third left out of the listing *)
C18_Witness ==
  \E i \in DOMAIN reads :
    /\ Cardinality(reads[i].cwd) = MaxEntries
    /\ Len(reads[i].listing) = 2
    /\ reads[i].listing[1] = <<"A", ".", "M", "K", "V">>
    /\ \E e \in reads[i].cwd : e.name \notin Listed(reads[i])

(* C19: every read of videos://list holds only names present in the working
   directory at the time of that read, and a video file created between two
   reads is in the later read *)
C19_ReadsAreFresh ==
  \A j \in DOMAIN reads :
    /\ \A name \in Listed(reads[j]) :
         \E e \in reads[j].cwd : e.name = name /\ e.parent = "."
    /\ \A i \in 1..(j - 1) :
         \A e \in reads[j].cwd \ reads[i].cwd :
           IsVideoFile(e) => e.name \in Listed(reads[j])

(* Two reads, the first of a directory that holds a video, with a video file
   created in between *)
C19_Witness ==
  /\ Len(reads) = 2
  /\ reads[1].listing # <<>>
  /\ \E e \in reads[2].cwd \ reads[1].cwd :
       IsVideoFile(e) /\ e.name \in Listed(reads[2])

(* C21: once main() has run: with MCP_TRANSPORT unset or "stdio" the server
   was started once, on the pipe transport; with "sse" it was started once, on
   the network transport, with the host MCP_HOST (localhost when unset) and
   the port MCP_PORT (8000 when unset); with any other value the process
   exited with status 1 and the server was never started *)
C21_TransportSelection ==
  proc.status # "created" =>
    LET transport == get(proc.env.MCP_TRANSPORT, "stdio")
        port == get(proc.env.MCP_PORT, <<"8", "0", "0", "0">>)
    IN CASE transport = "stdio" ->
              proc.did.runs = <<RunCall(<<>>, <<>>, <<>>)>>
         [] transport = "sse" ->
              /\ Len(proc.did.runs) = 1
              /\ proc.did.runs[1].transport = <<"sse">>
              /\ proc.did.runs[1].host = <<get(proc.env.MCP_HOST, "localhost")>>
              /\ IsInt(port) => proc.did.runs[1].port = <<int(port)>>
         [] OTHER ->
              proc.did.runs = <<>> /\ proc.did.exit = <<1>>

(* C22: the scenes detect_scene_changes returns are contiguous and cover the
   whole video: the first starts at 0, each scene's end is the next scene's
   start, the last ends at the video's duration, every scene has start <= end,
   and scene_count is the number of scenes *)
C22_ScenesCoverVideo ==
  work.status = "built" =>
    LET r == work.result
        s == r.scenes
    IN /\ r.scene_count = Len(s)
       /\ s = <<>> => r.total_duration = 0
       /\ s # <<>> => s[1].start = 0 /\ s[Len(s)].end = r.total_duration
       /\ \A i \in 1..(Len(s) - 1) : s[i].end = s[i + 1].start
       /\ \A i \in DOMAIN s : s[i].start <= s[i].end

(* C22, the call itself: a detect_scene_changes call whose engine run
   succeeded does not end with an exception of the handler's own code *)
C22_CallCanSucceed ==
  \A c \in Calls :
    IsTool(c, "detect_scene_changes") /\ Finished(c) =>
      calls[c].outcome # "AttributeError"

(* C23: every scene detect_scene_changes returns lasts at least
   min_scene_length *)
C23_NoShortScene ==
  work.status = "built" =>
    \A i \in DOMAIN work.result.scenes :
      work.result.scenes[i].duration >= work.min_scene_length

(* C24: the list file concatenate_videos hands to the engine names one file
   per input path, in the order of input_paths, each the absolute form of the
   corresponding input path *)
C24_ListNamesTheInputs ==
  \A c \in Calls :
    IsTool(c, "concatenate_videos") =>
      \A i \in DOMAIN calls[c].engine :
        LET entries == concat_entries(calls[c].engine[i].cmd.list)
            input_paths == calls[c].args.input_paths
        IN calls[c].engine[i].src # Missing =>
             /\ Len(entries) = Len(input_paths)
             /\ \A k \in DOMAIN entries : entries[k] = abspath(input_paths[k])

(* C25: for every layout "CxR" other than "1x1", the layout create_video_mosaic
   passes to the stacking operation has C*R positions (they are separated by
   "|"), and the position of the cell in column c and row r is the pixel
   offset c * (1920 // C), r * (1080 // R), written x_y *)
C25_MosaicGrid ==
  \A k \in Calls : \A C \in 1..MaxGrid, R \in 1..MaxGrid :
    (/\ IsTool(k, "create_video_mosaic")
     /\ calls[k].args.layout = LayoutText(C, R)
     /\ ~(C = 1 /\ R = 1)) =>
      \A i \in DOMAIN calls[k].engine :
        LET xstack == calls[k].engine[i].cmd.xstack
            positions == Split(xstack[1].layout, "|")
        IN /\ xstack # <<>>
           /\ Len(positions) = C * R
           /\ \A c \in 0..(C - 1), r \in 0..(R - 1) :
                positions[r * C + c + 1] =
                  str(c * (1920 \div C)) \o <<"_">> \o str(r * (1080 \div R))

(* C26: create_video_mosaic with a layout whose column count or row count is
   zero or negative invokes no engine and ends with a ValueError *)
C26_MosaicRejectsEmptyGrid ==
  \A c \in Calls :
    (/\ IsTool(c, "create_video_mosaic")
     /\ ~NoX(calls[c].args.layout)
     /\ ~BadLayout(calls[c].args.layout)
     /\ (cols(calls[c].args.layout) <= 0 \/ rows(calls[c].args.layout) <= 0)) =>
      /\ calls[c].engine = <<>>
      /\ Finished(c) => calls[c].outcome = "ValueError"

(* C27: create_video_slideshow with n >= 2 images hands the engine n - 1
   crossfades, the k-th with the offset
   k * (duration_per_image - transition_duration) *)
C27_CrossfadeOffsets ==
  \A c \in Calls :
    (IsTool(c, "create_video_slideshow") /\ Len(calls[c].args.input_paths) >= 2) =>
      \A i \in DOMAIN calls[c].engine :
        LET xfade == calls[c].engine[i].cmd.xfade
            a == calls[c].args
        IN /\ Len(xfade) = Len(a.input_paths) - 1
           /\ \A k \in DOMAIN xfade :
                xfade[k].offset = k * (a.duration_per_image - a.transition_duration)

(* The factor by which a command speeds the video up: the divisor of setpts,
   or the step of the frame selection *)
VideoFactor(cmd) ==
  IF cmd.select # <<>> THEN <<cmd.select[1], 1>> ELSE cmd.setpts[1]

(* C28: create_time_lapse with speed_factor in [2.0, 4.0] keeps the audio, and
   the factor by which the video is sped up equals the product of the atempo
   stages *)
C28_TimeLapseAudioMatchesVideo ==
  \A c \in Calls :
    (/\ IsTool(c, "create_time_lapse")
     /\ QLe(Two, calls[c].args.speed) /\ QLe(calls[c].args.speed, Four)) =>
      \A i \in DOMAIN calls[c].engine :
        LET cmd == calls[c].engine[i].cmd
        IN /\ cmd.atempo # <<>>
           /\ QEq(VideoFactor(cmd), QProduct(cmd.atempo))

(* C29: the frame count a successful extract_frames call reports is the number
   of frame files that call wrote *)
C29_FrameCountIsFramesWritten ==
  \A c \in Calls :
    (IsTool(c, "extract_frames") /\ Finished(c) /\ calls[c].outcome = "success") =>
      calls[c].result.doc.info[1].frame_count = calls[c].written

(* C30: in the quad layout of create_split_screen, for every border_width from
   0 to 20, the pieces stacked vertically (the two rows and the border between
   them) have one width, and the pieces side by side in a row have one
   height *)
C30_QuadPiecesFit ==
  (work.status = "stacked" /\ work.layout = "quad") =>
    LET strips == work.stack.rows
        stacked == { hstack(strips[i]) : i \in DOMAIN strips }
                     \cup { work.stack.borders[i] : i \in DOMAIN work.stack.borders }
    IN /\ \A p, q \in stacked : p.width = q.width
       /\ \A i \in DOMAIN strips : \A j, k \in DOMAIN strips[i] :
            strips[i][j].height = strips[i][k].height

(* C30, the call itself: a create_split_screen call with an accepted border
   width does not end with a TypeError of the handler's own code *)
C30_BorderCanBeBuilt ==
  \A c \in Calls :
    IsTool(c, "create_split_screen") /\ Finished(c) => calls[c].outcome # "TypeError"

====
